---- MODULE Spec2Model ----
(***************************************************************************)
(* A model of the Tenable VM Terraform provider: the HTTP client           *)
(* (client.go), the user resource (resource_user.go) and the role, group   *)
(* and user lookups (data_source_role.go, the group data source,           *)
(* data_source_user.go).                                                   *)
(*                                                                         *)
(* Go strings are sequences of one-character strings, so that formatting,  *)
(* trimming, case folding and number parsing are computed, not assumed.    *)
(* JSON keys and a few opaque texts are atoms (plain TLA+ strings).        *)
(***************************************************************************)
EXTENDS Integers, Sequences, FiniteSets, TLC

VARIABLES
    client,   \* the Client struct: AccessKey, SecretKey
    srv,      \* the server's user table: id -> user record or NoUser
    dir,      \* the server's role and group arrays
    tf,       \* the user resource's Terraform state (Absent when there is none)
    last      \* the last operation: its name, inputs, HTTP exchanges, result

vars == <<client, srv, dir, tf, last>>

----------------------------------------------------------------------------
(* Bounds of the model *)

\* user ids the server hands out are 1..MaxId
MaxId == 1

\* the roles, groups and users a lookup chooses among are at most MaxRecords
MaxRecords == 2

----------------------------------------------------------------------------
(* Characters and strings *)

Lowers == <<"a","b","c","d","e","f","g","h","i","j","k","l","m",
            "n","o","p","q","r","s","t","u","v","w","x","y","z">>
Uppers == <<"A","B","C","D","E","F","G","H","I","J","K","L","M",
            "N","O","P","Q","R","S","T","U","V","W","X","Y","Z">>
Digits == <<"0","1","2","3","4","5","6","7","8","9">>

IndexIn(seq, c) == CHOOSE i \in DOMAIN seq : seq[i] = c

\* the lower-case and upper-case forms of the letters
LowerOf == [c \in {Uppers[i] : i \in DOMAIN Uppers} |-> Lowers[IndexIn(Uppers, c)]]
UpperOf == [c \in {Lowers[i] : i \in DOMAIN Lowers} |-> Uppers[IndexIn(Lowers, c)]]

ToLowerCh(c) == IF c \in DOMAIN LowerOf THEN LowerOf[c] ELSE c

\* strings.TrimLeft(s, cutset) with a one-character cutset
RECURSIVE TrimLeft(_, _)
TrimLeft(s, c) ==
    IF s # <<>> /\ Head(s) = c THEN TrimLeft(Tail(s), c) ELSE s

\* strings.TrimRight(s, cutset) with a one-character cutset
RECURSIVE TrimRight(_, _)
TrimRight(s, c) ==
    IF s # <<>> /\ s[Len(s)] = c THEN TrimRight(SubSeq(s, 1, Len(s) - 1), c) ELSE s

\* strconv.Itoa
RECURSIVE ItoaNat(_)
ItoaNat(n) ==
    IF n < 10 THEN <<Digits[n + 1]>>
    ELSE ItoaNat(n \div 10) \o <<Digits[(n % 10) + 1]>>

Itoa(n) == IF n < 0 THEN <<"-">> \o ItoaNat(-n) ELSE ItoaNat(n)

\* the digits of a non-empty all-digit string, as a number
RECURSIVE DigitsVal(_, _)
DigitsVal(s, acc) ==
    IF s = <<>> THEN acc
    ELSE DigitsVal(Tail(s), acc * 10 + (IndexIn(Digits, Head(s)) - 1))

\* a parse whose error goes unnoticed: the zero value is taken as the number
AtoiMutLenient(s) == [ok |-> TRUE, v |-> 0]

\* strconv.Atoi: an optional sign, then one or more decimal digits
Atoi(s) ==
    LET signed == s # <<>> /\ Head(s) \in {"+", "-"}
        body   == IF signed THEN Tail(s) ELSE s
        digits == body # <<>>
                  /\ \A i \in DOMAIN body : \E d \in DOMAIN Digits : Digits[d] = body[i]
    IN  IF ~digits THEN [ok |-> FALSE, v |-> 0]
        ELSE [ok |-> TRUE,
              v  |-> IF signed /\ Head(s) = "-"
                     THEN 0 - DigitsVal(body, 0) ELSE DigitsVal(body, 0)]

\* fmt.Sprintf with the verbs %s and %d; args are the operands in order
RECURSIVE Sprintf(_, _)
Sprintf(format, args) ==
    IF format = <<>> THEN <<>>
    ELSE IF Head(format) = "%" /\ Len(format) >= 2 /\ args # <<>>
    THEN (IF format[2] = "d" THEN Itoa(Head(args)) ELSE Head(args))
         \o Sprintf(Tail(Tail(format)), Tail(args))
    ELSE <<Head(format)>> \o Sprintf(Tail(format), args)

\* a match on a prefix: t, folded, starts s
RECURSIVE EqualFoldMutPrefix(_, _)
EqualFoldMutPrefix(s, t) ==
    IF t = <<>> THEN TRUE
    ELSE IF s = <<>> THEN FALSE
    ELSE /\ ToLowerCh(Head(s)) = ToLowerCh(Head(t))
         /\ EqualFoldMutPrefix(Tail(s), Tail(t))

\* strings.EqualFold: equal under simple case folding, rune by rune
RECURSIVE EqualFold(_, _)
EqualFold(s, t) ==
    IF s = <<>> \/ t = <<>> THEN s = t
    ELSE /\ ToLowerCh(Head(s)) = ToLowerCh(Head(t))
         /\ EqualFold(Tail(s), Tail(t))

----------------------------------------------------------------------------
(* String literals of the source *)

baseURL == <<"h","t","t","p","s",":","/","/","c","l","o","u","d",".",
             "t","e","n","a","b","l","e",".","c","o","m">>

HdrContentType == <<"C","o","n","t","e","n","t","-","T","y","p","e">>
HdrApiKeys     == <<"X","-","A","p","i","K","e","y","s">>
AppJson == <<"a","p","p","l","i","c","a","t","i","o","n","/","j","s","o","n">>

PathUsers  == <<"u","s","e","r","s">>
PathRoles  == <<"r","o","l","e","s">>
PathGroups == <<"g","r","o","u","p","s">>
FmtUser        == <<"u","s","e","r","s","/","%","d">>
FmtUserEnabled == <<"u","s","e","r","s","/","%","d","/","e","n","a","b","l","e","d">>

MethodGet    == <<"G","E","T">>
MethodPost   == <<"P","O","S","T">>
MethodPut    == <<"P","U","T">>
MethodDelete == <<"D","E","L","E","T","E">>

----------------------------------------------------------------------------
(* JSON values and their Go decoding *)

Nil == [t |-> "nil"]

\* a JSON number holds its value in halves (h = 2 is the number 1, h = 3 is
\* 1.5) and the form of its literal: "int" for 1, "float" for 1.0 or 1.5
JNum(h, lit) == [t |-> "num", h |-> h, lit |-> lit]
JInt(n)      == JNum(2 * n, "int")
JStr(s)      == [t |-> "str", v |-> s]
JBool(b)     == [t |-> "bool", v |-> b]

\* encoding/json into interface{}: every number becomes a float64
JDecodeValue(j) ==
    CASE j.t = "num"  -> [t |-> "float64", h |-> j.h]
      [] j.t = "str"  -> [t |-> "string", v |-> j.v]
      [] j.t = "bool" -> [t |-> "bool", v |-> j.v]
      [] OTHER        -> Nil

\* a map[string]interface{}: nil, or a finite function from keys to values
Has(m, k) == ~m.isnil /\ k \in DOMAIN m.kv

JDecodeObject(obj) ==
    [isnil |-> FALSE, kv |-> [k \in DOMAIN obj |-> JDecodeValue(obj[k])]]

\* encoding/json of a payload map whose values are Go ints, strings, bools
JEncodeObject(kv) ==
    [k \in DOMAIN kv |->
        CASE kv[k].t = "int"    -> JInt(kv[k].v)
          [] kv[k].t = "string" -> JStr(kv[k].v)
          [] kv[k].t = "bool"   -> JBool(kv[k].v)
          [] OTHER              -> [t |-> "null"]]

GoInt(n)    == [t |-> "int", v |-> n]
GoString(s) == [t |-> "string", v |-> s]
GoBool(b)   == [t |-> "bool", v |-> b]

----------------------------------------------------------------------------
(* Transport: newRequest and do *)

\* textproto.CanonicalMIMEHeaderKey, as http.Header.Set and Get apply it
RECURSIVE CanonTail(_, _)
CanonTail(s, upper) ==
    IF s = <<>> THEN <<>>
    ELSE <<IF upper THEN (IF Head(s) \in DOMAIN UpperOf THEN UpperOf[Head(s)] ELSE Head(s))
           ELSE ToLowerCh(Head(s))>>
         \o CanonTail(Tail(s), Head(s) = "-")

CanonicalMIMEHeaderKey(k) ==
    IF \E i \in DOMAIN k : k[i] = " " THEN k ELSE CanonTail(k, TRUE)

HeaderSet(h, k, v) ==
    LET ck == CanonicalMIMEHeaderKey(k)
    IN  [x \in DOMAIN h \cup {ck} |-> IF x = ck THEN <<v>> ELSE h[x]]

HeaderGet(h, k) ==
    LET ck == CanonicalMIMEHeaderKey(k)
    IN  IF ck \in DOMAIN h /\ h[ck] # <<>> THEN h[ck][1] ELSE <<>>

EmptyHeader == [x \in {} |-> <<>>]

\* net/http validMethod: a non-empty token (here: no space)
ValidMethod(m) == m # <<>> /\ \A i \in DOMAIN m : m[i] # " "

\* An error is its kind and the text err.Error() yields; the text is kept as
\* the format and the operands it was built from.
Msg(text, status, body, op, url) ==
    [text |-> text, status |-> status, body |-> body, op |-> op, url |-> url]
NoBody == [kind |-> "malformed", text |-> ""]
NoErr == [kind |-> "none", msg |-> Msg("", 0, NoBody, <<>>, <<>>)]
IsErr(e) == e.kind # "none"

\* Client.newRequest
newRequestMutAuthFormat(c, method, path, body) ==
    LET url == TrimRight(baseURL, "/") \o <<"/">> \o TrimLeft(path, "/")
        m   == IF method = <<>> THEN MethodGet ELSE method
    IN  IF ~ValidMethod(m)
        THEN [err |-> [kind |-> "request",
                      msg |-> Msg("net/http: invalid method %q", 0, NoBody, m, <<>>)],
              req |-> Nil]
        ELSE [err |-> NoErr,
              req |-> [t      |-> "request",
                       method |-> m,
                       url    |-> url,
                       body   |-> IF body = Nil THEN Nil
                                  ELSE [t |-> "json", v |-> JEncodeObject(body.v)],
                       header |-> HeaderSet(
                                     HeaderSet(EmptyHeader, HdrContentType, AppJson),
                                     HdrApiKeys,
                                     Sprintf(<<"a","c","c","e","s","s","K","e","y","=","%","s",";",
                                               "s","e","c","r","e","t","K","e","y","=","%","s",";">>,
                                             <<c.AccessKey, c.SecretKey>>))]]

newRequest(c, method, path, body) ==
    LET url == TrimRight(baseURL, "/") \o <<"/">> \o TrimLeft(path, "/")
        m   == IF method = <<>> THEN MethodGet ELSE method
    IN  IF ~ValidMethod(m)
        THEN [err |-> [kind |-> "request",
                      msg |-> Msg("net/http: invalid method %q", 0, NoBody, m, <<>>)],
              req |-> Nil]
        ELSE [err |-> NoErr,
              req |-> [t      |-> "request",
                       method |-> m,
                       url    |-> url,
                       body   |-> IF body = Nil THEN Nil
                                  ELSE [t |-> "json", v |-> JEncodeObject(body.v)],
                       header |-> HeaderSet(
                                     HeaderSet(EmptyHeader, HdrContentType, AppJson),
                                     HdrApiKeys,
                                     Sprintf(<<"a","c","c","e","s","s","K","e","y","=","%","s",";"," ",
                                               "s","e","c","r","e","t","K","e","y","=","%","s",";">>,
                                             <<c.AccessKey, c.SecretKey>>))]]

\* What c.Http.Do hands back: a transport error, or a response with a status
\* and a body.  A body is a JSON object, a JSON array of objects, the JSON
\* null, or bytes that are no JSON document (kind "malformed", also the
\* empty body).
NetErr(req, cause) ==
    [neterr |-> TRUE, status |-> 0, body |-> [kind |-> "malformed", text |-> cause],
     op |-> req.method, url |-> req.url]
Response(status, body) ==
    [neterr |-> FALSE, status |-> status, body |-> body, op |-> <<>>, url |-> <<>>]

BodyObject(obj)  == [kind |-> "object", obj |-> obj]
BodyArray(items) == [kind |-> "array", items |-> items]
BodyText(text)   == [kind |-> "malformed", text |-> text]

Untouched == [t |-> "untouched"]

\* json.NewDecoder(body).Decode(target) for the two target types in use:
\* *map[string]interface{} ("map") and *[]map[string]interface{} ("slice")
JsonDecode(body, target) ==
    CASE body.kind = "malformed" ->
            [err |-> [kind |-> "decode", msg |-> Msg("invalid character", 0, body, <<>>, <<>>)],
             target |-> Untouched]
      [] body.kind = "null" ->
            [err |-> NoErr,
             target |-> IF target = "map" THEN [isnil |-> TRUE, kv |-> <<>>] ELSE <<>>]
      [] body.kind = "object" ->
            IF target = "map"
            THEN [err |-> NoErr, target |-> JDecodeObject(body.obj)]
            ELSE [err |-> [kind |-> "decode",
                           msg |-> Msg("json: cannot unmarshal object", 0, NoBody, <<>>, <<>>)],
                  target |-> Untouched]
      [] OTHER ->
            IF target = "slice"
            THEN [err |-> NoErr,
                  target |-> [i \in DOMAIN body.items |-> JDecodeObject(body.items[i])]]
            ELSE [err |-> [kind |-> "decode",
                           msg |-> Msg("json: cannot unmarshal array", 0, NoBody, <<>>, <<>>)],
                  target |-> Untouched]

\* Client.do, given what c.Http.Do returned; target is "nil", "map" or "slice"
doMutStatusRange(r, target) ==
    IF r.neterr
    THEN [err |-> [kind |-> "transport", msg |-> Msg("%s %q: %s", 0, r.body, r.op, r.url)],
          target |-> Untouched]
    ELSE IF r.status < 200 \/ r.status > 300
    THEN [err |-> [kind |-> "api", msg |-> Msg("API error: %s: %s", r.status, r.body, <<>>, <<>>)],
          target |-> Untouched]
    ELSE IF target = "nil"
    THEN [err |-> NoErr, target |-> Untouched]
    ELSE JsonDecode(r.body, target)

do(r, target) ==
    IF r.neterr
    THEN [err |-> [kind |-> "transport", msg |-> Msg("%s %q: %s", 0, r.body, r.op, r.url)],
          target |-> Untouched]
    ELSE IF r.status < 200 \/ r.status >= 300
    THEN [err |-> [kind |-> "api", msg |-> Msg("API error: %s: %s", r.status, r.body, <<>>, <<>>)],
          target |-> Untouched]
    ELSE IF target = "nil"
    THEN [err |-> NoErr, target |-> Untouched]
    ELSE JsonDecode(r.body, target)

----------------------------------------------------------------------------
(* The server, as the client sees it *)

NoUser == [t |-> "nouser"]

UrlOf(path) == baseURL \o <<"/">> \o path

\* the JSON object the server renders for user id
UserJson(id, u) ==
    [k \in {"id", "uuid", "username", "name", "email", "permissions", "enabled"} |->
        CASE k = "id"          -> JInt(id)
          [] k = "uuid"        -> JStr(<<"u">> \o Itoa(id))
          [] k = "username"    -> JStr(u.username)
          [] k = "name"        -> JStr(u.name)
          [] k = "email"       -> JStr(u.email)
          [] k = "permissions" -> JInt(u.permissions)
          [] OTHER             -> JBool(u.enabled)]

\* The object answered to POST /users.  Deployments differ (client.go:140-142):
\* some leave out the enabled field, and then the user was created enabled;
\* shape.withId = FALSE is an answer that carries no id.
CreatedJson(id, u, shape) ==
    LET full == UserJson(id, u)
        keys == (DOMAIN full \ (IF shape.withId THEN {} ELSE {"id"}))
                \ (IF shape.withEnabled THEN {} ELSE {"enabled"})
    IN  [k \in keys |-> full[k]]

NotFound == Response(404, BodyText("not found"))

\* the URLs of the users the server may hold
ServerIds  == 1..(IF MaxId > MaxRecords THEN MaxId ELSE MaxRecords)
UserUrl    == [i \in ServerIds |-> UrlOf(Sprintf(FmtUser, <<i>>))]
EnabledUrl == [i \in ServerIds |-> UrlOf(Sprintf(FmtUserEnabled, <<i>>))]
UsersUrl   == UrlOf(PathUsers)

UsersArray(s) ==
    LET ids == { i \in DOMAIN s : s[i] # NoUser }
        RECURSIVE Asc(_, _)
        Asc(i, acc) == IF i > Len(s) THEN acc
                       ELSE Asc(i + 1, IF i \in ids THEN Append(acc, UserJson(i, s[i])) ELSE acc)
    IN  Asc(1, <<>>)

\* what the server does with a request it receives and answers
Handle(s, d, req, shape) ==
    LET uid == { i \in DOMAIN s : req.url = UserUrl[i] }
        eid == { i \in DOMAIN s : req.url = EnabledUrl[i] }
    IN
    CASE req.method = MethodPost /\ req.url = UsersUrl ->
            LET free == { i \in DOMAIN s : s[i] = NoUser }
                id   == CHOOSE i \in free : \A j \in free : i <= j
                b    == req.body.v
                u    == [username    |-> b["username"].v,
                         name        |-> IF "name" \in DOMAIN b THEN b["name"].v ELSE <<>>,
                         email       |-> IF "email" \in DOMAIN b THEN b["email"].v ELSE <<>>,
                         permissions |-> b["permissions"].h \div 2,
                         enabled     |-> shape.withEnabled => shape.srvEnabled]
            IN  IF free = {}
                THEN [srv |-> s, resp |-> Response(403, BodyText("user limit reached"))]
                ELSE [srv  |-> [s EXCEPT ![id] = u],
                      resp |-> Response(200, BodyObject(CreatedJson(id, u, shape)))]
      [] req.method = MethodGet /\ req.url = UsersUrl ->
            [srv |-> s, resp |-> Response(200, BodyArray(UsersArray(s)))]
      [] req.method = MethodGet /\ req.url = UrlOf(PathRoles) ->
            [srv |-> s, resp |-> Response(200, BodyArray(d.roles))]
      [] req.method = MethodGet /\ req.url = UrlOf(PathGroups) ->
            [srv |-> s, resp |-> Response(200, BodyArray(d.groups))]
      [] uid # {} ->
            LET id == CHOOSE i \in uid : TRUE
            IN  IF s[id] = NoUser THEN [srv |-> s, resp |-> NotFound]
                ELSE CASE req.method = MethodGet ->
                            [srv |-> s, resp |-> Response(200, BodyObject(UserJson(id, s[id])))]
                       [] req.method = MethodPut ->
                            LET b == req.body.v
                                u == [username    |-> s[id].username,
                                      name        |-> IF "name" \in DOMAIN b
                                                      THEN b["name"].v ELSE s[id].name,
                                      email       |-> IF "email" \in DOMAIN b
                                                      THEN b["email"].v ELSE s[id].email,
                                      permissions |-> IF "permissions" \in DOMAIN b
                                                      THEN b["permissions"].h \div 2
                                                      ELSE s[id].permissions,
                                      enabled     |-> IF "enabled" \in DOMAIN b
                                                      THEN b["enabled"].v ELSE s[id].enabled]
                            IN  [srv  |-> [s EXCEPT ![id] = u],
                                 resp |-> Response(200, BodyObject(UserJson(id, u)))]
                       [] req.method = MethodDelete ->
                            [srv |-> [s EXCEPT ![id] = NoUser],
                             resp |-> Response(200, BodyText(""))]
                       [] OTHER -> [srv |-> s, resp |-> Response(405, BodyText("method"))]
      [] eid # {} /\ req.method = MethodPut ->
            LET id == CHOOSE i \in eid : TRUE
            IN  IF s[id] = NoUser THEN [srv |-> s, resp |-> NotFound]
                ELSE [srv  |-> [s EXCEPT ![id].enabled = req.body.v["enabled"].v],
                      resp |-> Response(200, BodyText(""))]
      [] OTHER -> [srv |-> s, resp |-> NotFound]

\* How the server writes an object out.  Numbers are written as integer
\* literals or, with shape.lit = "float", in the floating-point form (1.0);
\* with shape.extra the object also carries a field the client has no
\* struct field for; the id it carries is off by shape.idShift.  With
\* shape.mangle the field mangle.key is left out (how = "drop") or written
\* with a value of another type (how = "type": a number for a string, a
\* string for a number or a boolean).
Shaped(obj, shape) ==
    [k \in (DOMAIN obj \ (IF shape.mangle.how = "drop" THEN {shape.mangle.key} ELSE {}))
           \cup (IF shape.extra THEN {"type"} ELSE {}) |->
        IF k \notin DOMAIN obj THEN JStr(<<"l","o","c","a","l">>)
        ELSE IF shape.mangle.how = "type" /\ k = shape.mangle.key
        THEN (IF obj[k].t = "str" THEN JNum(14, shape.lit) ELSE JStr(<<"x">>))
        ELSE IF k = "id" THEN JNum(obj[k].h + 2 * shape.idShift, shape.lit)
        ELSE IF obj[k].t = "num" THEN JNum(obj[k].h, shape.lit)
        ELSE obj[k]]

\* One exchange.  The outcome is "ok"; "s500": the server refuses with status
\* 500 and changes nothing; "neterr": the request never arrives; "badjson":
\* the server acts and answers its status with a body that is no JSON;
\* "mangled": the server acts and writes its answer with shape.mangle, which
\* the answers of every other exchange are free of.
Serve(s, d, req, outcome, shape) ==
    LET Garbled(h) == [srv |-> h.srv, resp |-> Response(h.resp.status, BodyText("<html>"))]
        sh == IF outcome = "mangled" THEN shape
              ELSE [shape EXCEPT !.mangle = [key |-> "", how |-> "none"]]
        Written(h) ==
            CASE h.resp.body.kind = "object" ->
                    [srv |-> h.srv,
                     resp |-> Response(h.resp.status,
                                       BodyObject(Shaped(h.resp.body.obj, sh)))]
              [] h.resp.body.kind = "array" ->
                    [srv |-> h.srv,
                     resp |-> Response(h.resp.status,
                                       BodyArray([i \in DOMAIN h.resp.body.items |->
                                                    Shaped(h.resp.body.items[i], sh)]))]
              [] OTHER -> h
    IN  CASE outcome = "neterr" -> [srv |-> s, resp |-> NetErr(req, "connection refused")]
          [] outcome = "s500"   -> [srv |-> s, resp |-> Response(500, BodyText("server error"))]
          [] outcome = "badjson" -> Garbled(Handle(s, d, req, shape))
          [] OTHER -> Written(Handle(s, d, req, shape))

----------------------------------------------------------------------------
(* The client's operations.  Each takes the client c, the environment       *)
(* env = [srv, dir, plan], the exchanges made so far, and its arguments,    *)
(* and yields the server afterwards, the exchanges, and what it returns.    *)

\* newRequest followed by do: one HTTP exchange
Roundtrip(c, env, s, log, method, path, body, target) ==
    LET Done(nr, sv, d) ==
            [srv |-> sv.srv, log |-> Append(log, [req |-> nr.req, resp |-> sv.resp]),
             err |-> d.err, target |-> d.target]
        Served(nr, sv) == Done(nr, sv, do(sv.resp, target))
        Sent(nr) ==
            IF IsErr(nr.err)
            THEN [srv |-> s, log |-> log, err |-> nr.err, target |-> Untouched]
            ELSE Served(nr, Serve(s, env.dir, nr.req,
                                  IF Len(log) + 1 = env.plan.failAt THEN env.plan.kind
                                  ELSE "ok",
                                  env.plan.shape))
    IN  Sent(newRequest(c, method, path, body))

\* a type switch that has the case int alone
FieldIntMutIntOnly(m, k) ==
    IF Has(m, k) /\ m.kv[k].t = "int" THEN m.kv[k].v ELSE 0

\* a bool assertion that takes a value of any type for true
FieldBoolMutTruthy(m, k) == Has(m, k)

\* the type switch on float64 and int (int(f) truncates a float64 toward
\* zero), and the string and bool assertions
FieldInt(m, k) ==
    IF ~Has(m, k) THEN 0
    ELSE CASE m.kv[k].t = "float64" ->
                IF m.kv[k].h >= 0 THEN m.kv[k].h \div 2 ELSE 0 - ((0 - m.kv[k].h) \div 2)
           [] m.kv[k].t = "int"     -> m.kv[k].v
           [] OTHER                 -> 0
FieldString(m, k) ==
    IF Has(m, k) /\ m.kv[k].t = "string" THEN m.kv[k].v ELSE <<>>
FieldBool(m, k) ==
    IF Has(m, k) /\ m.kv[k].t = "bool" THEN m.kv[k].v ELSE FALSE

\* a User whose raw map keeps the fields of the struct alone
DecodeUserMutKnownKeys(m) ==
    [ID          |-> FieldInt(m, "id"),
     UUID        |-> FieldString(m, "uuid"),
     Username    |-> FieldString(m, "username"),
     Name        |-> FieldString(m, "name"),
     Email       |-> FieldString(m, "email"),
     Permissions |-> FieldInt(m, "permissions"),
     Enabled     |-> FieldBool(m, "enabled"),
     Raw         |-> [isnil |-> FALSE,
                      kv |-> [k \in DOMAIN m.kv \cap {"id", "uuid", "username", "name",
                                                       "email", "permissions", "enabled"}
                                |-> m.kv[k]]]]

\* the User built from a decoded object, in GetUser and in ListUsers
DecodeUser(m) ==
    [ID          |-> FieldInt(m, "id"),
     UUID        |-> FieldString(m, "uuid"),
     Username    |-> FieldString(m, "username"),
     Name        |-> FieldString(m, "name"),
     Email       |-> FieldString(m, "email"),
     Permissions |-> FieldInt(m, "permissions"),
     Enabled     |-> FieldBool(m, "enabled"),
     Raw         |-> m]

\* a decoding of the answer to POST /users that has no default
DecodeCreatedUserMutNoDefault(m) == DecodeUser(m)

\* the User built from the answer to POST /users: enabled defaults to true
\* when the key is absent
DecodeCreatedUser(m) ==
    [DecodeUser(m) EXCEPT !.Enabled = IF Has(m, "enabled") THEN FieldBool(m, "enabled")
                                      ELSE TRUE]

Payload(kv) == [t |-> "payload", v |-> kv]

\* Client.SetUserEnabled
SetUserEnabled(c, env, s, log, id, enabled) ==
    LET Put(rt) == [srv |-> rt.srv, log |-> rt.log, err |-> rt.err]
    IN  Put(Roundtrip(c, env, s, log, MethodPut, Sprintf(FmtUserEnabled, <<id>>),
                      Payload([k \in {"enabled"} |-> GoBool(enabled)]), "nil"))

\* a create that lets a failed correction pass
CreateUserMutIgnoreEnableError(c, env, s, log, username, password, permissions, name, email, accountType, enabled) ==
    LET keys == {"username", "password", "permissions", "type"}
                \cup (IF name # <<>> THEN {"name"} ELSE {})
                \cup (IF email # <<>> THEN {"email"} ELSE {})
        payload == [k \in keys |->
                       CASE k = "username"    -> GoString(username)
                         [] k = "password"    -> GoString(password)
                         [] k = "permissions" -> GoInt(permissions)
                         [] k = "type"        -> GoString(accountType)
                         [] k = "name"        -> GoString(name)
                         [] OTHER             -> GoString(email)]
        Reconciled(user, se) ==
            [srv |-> se.srv, log |-> se.log, err |-> NoErr,
             user |-> [user EXCEPT !.Enabled = enabled]]
        Decoded(rt, user) ==
            IF user.ID # 0 /\ user.Enabled # enabled
            THEN Reconciled(user, SetUserEnabled(c, env, rt.srv, rt.log, user.ID, enabled))
            ELSE [srv |-> rt.srv, log |-> rt.log, err |-> NoErr, user |-> user]
        Posted(rt) ==
            IF IsErr(rt.err)
            THEN [srv |-> rt.srv, log |-> rt.log, err |-> rt.err, user |-> Nil]
            ELSE Decoded(rt, DecodeCreatedUser(rt.target))
    IN  Posted(Roundtrip(c, env, s, log, MethodPost, PathUsers, Payload(payload), "map"))

\* Client.CreateUser
CreateUser(c, env, s, log, username, password, permissions, name, email, accountType, enabled) ==
    LET keys == {"username", "password", "permissions", "type"}
                \cup (IF name # <<>> THEN {"name"} ELSE {})
                \cup (IF email # <<>> THEN {"email"} ELSE {})
        payload == [k \in keys |->
                       CASE k = "username"    -> GoString(username)
                         [] k = "password"    -> GoString(password)
                         [] k = "permissions" -> GoInt(permissions)
                         [] k = "type"        -> GoString(accountType)
                         [] k = "name"        -> GoString(name)
                         [] OTHER             -> GoString(email)]
        Reconciled(user, se) ==
            IF IsErr(se.err)
            THEN [srv |-> se.srv, log |-> se.log, err |-> se.err, user |-> Nil]
            ELSE [srv |-> se.srv, log |-> se.log, err |-> NoErr,
                  user |-> [user EXCEPT !.Enabled = enabled]]
        Decoded(rt, user) ==
            IF user.ID # 0 /\ user.Enabled # enabled
            THEN Reconciled(user, SetUserEnabled(c, env, rt.srv, rt.log, user.ID, enabled))
            ELSE [srv |-> rt.srv, log |-> rt.log, err |-> NoErr, user |-> user]
        Posted(rt) ==
            IF IsErr(rt.err)
            THEN [srv |-> rt.srv, log |-> rt.log, err |-> rt.err, user |-> Nil]
            ELSE Decoded(rt, DecodeCreatedUser(rt.target))
    IN  Posted(Roundtrip(c, env, s, log, MethodPost, PathUsers, Payload(payload), "map"))

\* a read that tries a second time when the first fails
GetUserMutRetry(c, env, s, log, id) ==
    LET Got(rt) ==
            IF IsErr(rt.err)
            THEN [srv |-> rt.srv, log |-> rt.log, err |-> rt.err, user |-> Nil]
            ELSE [srv |-> rt.srv, log |-> rt.log, err |-> NoErr, user |-> DecodeUser(rt.target)]
        First(rt) ==
            IF IsErr(rt.err)
            THEN Got(Roundtrip(c, env, rt.srv, rt.log, MethodGet, Sprintf(FmtUser, <<id>>),
                               Nil, "map"))
            ELSE Got(rt)
    IN  First(Roundtrip(c, env, s, log, MethodGet, Sprintf(FmtUser, <<id>>), Nil, "map"))

\* Client.GetUser
GetUser(c, env, s, log, id) ==
    LET Got(rt) ==
            IF IsErr(rt.err)
            THEN [srv |-> rt.srv, log |-> rt.log, err |-> rt.err, user |-> Nil]
            ELSE [srv |-> rt.srv, log |-> rt.log, err |-> NoErr, user |-> DecodeUser(rt.target)]
    IN  Got(Roundtrip(c, env, s, log, MethodGet, Sprintf(FmtUser, <<id>>), Nil, "map"))

\* Client.ListUsers
ListUsers(c, env, s, log) ==
    LET Got(rt) ==
            IF IsErr(rt.err)
            THEN [srv |-> rt.srv, log |-> rt.log, err |-> rt.err, users |-> <<>>]
            ELSE [srv |-> rt.srv, log |-> rt.log, err |-> NoErr,
                  users |-> [i \in DOMAIN rt.target |-> DecodeUser(rt.target[i])]]
    IN  Got(Roundtrip(c, env, s, log, MethodGet, PathUsers, Nil, "slice"))

\* the Role or Group built from a decoded object, in ListRoles and ListGroups
DecodeRole(m) ==
    [ID          |-> FieldInt(m, "id"),
     UUID        |-> FieldString(m, "uuid"),
     Name        |-> FieldString(m, "name"),
     Description |-> FieldString(m, "description"),
     Raw         |-> m]

\* a loop that puts each role before those already collected
ListRolesMutPrepend(c, env, s, log) ==
    LET Got(rt) ==
            IF IsErr(rt.err)
            THEN [srv |-> rt.srv, log |-> rt.log, err |-> rt.err, roles |-> <<>>]
            ELSE [srv |-> rt.srv, log |-> rt.log, err |-> NoErr,
                  roles |-> [i \in DOMAIN rt.target |->
                               DecodeRole(rt.target[Len(rt.target) + 1 - i])]]
    IN  Got(Roundtrip(c, env, s, log, MethodGet, PathRoles, Nil, "slice"))

\* Client.ListRoles
ListRoles(c, env, s, log) ==
    LET Got(rt) ==
            IF IsErr(rt.err)
            THEN [srv |-> rt.srv, log |-> rt.log, err |-> rt.err, roles |-> <<>>]
            ELSE [srv |-> rt.srv, log |-> rt.log, err |-> NoErr,
                  roles |-> [i \in DOMAIN rt.target |-> DecodeRole(rt.target[i])]]
    IN  Got(Roundtrip(c, env, s, log, MethodGet, PathRoles, Nil, "slice"))

\* Client.ListGroups
ListGroups(c, env, s, log) ==
    LET Got(rt) ==
            IF IsErr(rt.err)
            THEN [srv |-> rt.srv, log |-> rt.log, err |-> rt.err, groups |-> <<>>]
            ELSE [srv |-> rt.srv, log |-> rt.log, err |-> NoErr,
                  groups |-> [i \in DOMAIN rt.target |-> DecodeRole(rt.target[i])]]
    IN  Got(Roundtrip(c, env, s, log, MethodGet, PathGroups, Nil, "slice"))

\* an optional argument (a nil or non-nil pointer)
None == [set |-> FALSE]
Some(v) == [set |-> TRUE, v |-> v]

\* a body of the overrides alone
UpdatePayloadMutPartial(current, permissions, name, email, enabled) ==
    [k \in (IF permissions.set THEN {"permissions"} ELSE {})
           \cup (IF enabled.set THEN {"enabled"} ELSE {})
           \cup (IF email.set THEN {"email"} ELSE {})
           \cup (IF name.set THEN {"name"} ELSE {}) |->
        CASE k = "permissions" -> GoInt(permissions.v)
          [] k = "enabled"     -> GoBool(enabled.v)
          [] k = "email"       -> GoString(email.v)
          [] OTHER             -> GoString(name.v)]

\* a body that sends the username along
UpdatePayloadMutSendsUsername(current, permissions, name, email, enabled) ==
    [k \in {"permissions", "enabled", "email", "name", "username"} |->
        CASE k = "permissions" ->
                GoInt(IF permissions.set THEN permissions.v ELSE current.Permissions)
          [] k = "enabled" ->
                GoBool(IF enabled.set THEN enabled.v ELSE current.Enabled)
          [] k = "email" ->
                GoString(IF email.set THEN email.v ELSE current.Email)
          [] k = "username" -> GoString(current.Username)
          [] OTHER ->
                GoString(IF name.set THEN name.v ELSE current.Name)]

\* the body UpdateUser sends: the current values, then the overrides
UpdatePayload(current, permissions, name, email, enabled) ==
    [k \in {"permissions", "enabled", "email", "name"} |->
        CASE k = "permissions" ->
                GoInt(IF permissions.set THEN permissions.v ELSE current.Permissions)
          [] k = "enabled" ->
                GoBool(IF enabled.set THEN enabled.v ELSE current.Enabled)
          [] k = "email" ->
                GoString(IF email.set THEN email.v ELSE current.Email)
          [] OTHER ->
                GoString(IF name.set THEN name.v ELSE current.Name)]


\* an update that returns the record of the PUT's answer
UpdateUserMutTrustsPut(c, env, s, log, id, permissions, name, email, enabled) ==
    LET Again(rt, g) == IF IsErr(g.err) THEN g ELSE [g EXCEPT !.user = DecodeUser(rt.target)]
        Put(rt) ==
            IF IsErr(rt.err)
            THEN [srv |-> rt.srv, log |-> rt.log, err |-> rt.err, user |-> Nil]
            ELSE Again(rt, GetUser(c, env, rt.srv, rt.log, id))
        Fetched(current) ==
            IF IsErr(current.err) THEN current
            ELSE Put(Roundtrip(c, env, current.srv, current.log, MethodPut,
                               Sprintf(FmtUser, <<id>>),
                               Payload(UpdatePayload(current.user, permissions, name,
                                                     email, enabled)),
                               "map"))
    IN  Fetched(GetUser(c, env, s, log, id))

\* Client.UpdateUser
UpdateUser(c, env, s, log, id, permissions, name, email, enabled) ==
    LET Put(rt) ==
            IF IsErr(rt.err)
            THEN [srv |-> rt.srv, log |-> rt.log, err |-> rt.err, user |-> Nil]
            ELSE GetUser(c, env, rt.srv, rt.log, id)
        Fetched(current) ==
            IF IsErr(current.err) THEN current
            ELSE Put(Roundtrip(c, env, current.srv, current.log, MethodPut,
                               Sprintf(FmtUser, <<id>>),
                               Payload(UpdatePayload(current.user, permissions, name,
                                                     email, enabled)),
                               "map"))
    IN  Fetched(GetUser(c, env, s, log, id))

\* Client.DeleteUser
DeleteUser(c, env, s, log, id) ==
    LET Deleted(rt) == [srv |-> rt.srv, log |-> rt.log, err |-> rt.err]
    IN  Deleted(Roundtrip(c, env, s, log, MethodDelete, Sprintf(FmtUser, <<id>>), Nil, "nil"))

----------------------------------------------------------------------------
(* The user resource (resource_user.go) *)

\* framework values: null, unknown, or known
TfNull    == [s |-> "null"]
TfUnknown == [s |-> "unknown"]
TfVal(v)  == [s |-> "value", v |-> v]
IsNull(x)    == x.s = "null"
IsUnknown(x) == x.s = "unknown"
ValueString(x) == IF x.s = "value" THEN x.v ELSE <<>>
ValueInt64(x)  == IF x.s = "value" THEN x.v ELSE 0
ValueBool(x)   == IF x.s = "value" THEN x.v ELSE FALSE

\* a state without the resource
Absent == [t |-> "absent"]

AcctLocal == <<"l","o","c","a","l">>

\* a diagnostic: severity, summary, and the detail as its text, the string
\* spliced into it and the error whose Error() it carries
Diag(sev, summary, detail, arg, err) ==
    [sev |-> sev, summary |-> summary, detail |-> detail, arg |-> arg, msg |-> err.msg]

\* a string attribute of state: null when the API value is empty
StringOrNull(s) == IF s # <<>> THEN TfVal(s) ELSE TfNull

\* a Create that writes the planned password to state
ResourceCreateMutKeepPassword(c, env, s, plan) ==
    LET username    == ValueString(plan.Username)
        password    == IF ~IsNull(plan.Password) /\ ~IsUnknown(plan.Password)
                       THEN ValueString(plan.Password) ELSE <<>>
        permissions == ValueInt64(plan.Permissions)
        name        == IF ~IsNull(plan.Name) /\ ~IsUnknown(plan.Name)
                       THEN ValueString(plan.Name) ELSE <<>>
        email       == IF ~IsNull(plan.Email) /\ ~IsUnknown(plan.Email)
                       THEN ValueString(plan.Email) ELSE <<>>
        accountType == IF ~IsNull(plan.AccountType) /\ ~IsUnknown(plan.AccountType)
                       THEN ValueString(plan.AccountType) ELSE AcctLocal
        enabled     == IF ~IsNull(plan.Enabled) /\ ~IsUnknown(plan.Enabled)
                       THEN ValueBool(plan.Enabled) ELSE TRUE
        Created(r) ==
            IF IsErr(r.err)
            THEN [srv |-> r.srv, log |-> r.log, tf |-> Absent,
                  diags |-> <<Diag("error", "Error creating Tenable VM user", "%s", <<>>, r.err)>>]
            ELSE [srv |-> r.srv, log |-> r.log,
                  tf  |-> [ID          |-> TfVal(Itoa(r.user.ID)),
                           Username    |-> TfVal(r.user.Username),
                           Password    |-> plan.Password,
                           Permissions |-> TfVal(r.user.Permissions),
                           Name        |-> StringOrNull(r.user.Name),
                           Email       |-> StringOrNull(r.user.Email),
                           AccountType |-> TfVal(accountType),
                           Enabled     |-> TfVal(r.user.Enabled)],
                  diags |-> <<>>]
    IN  Created(CreateUser(c, env, s, <<>>, username, password, permissions, name, email,
                           accountType, enabled))

\* userResource.Create
ResourceCreate(c, env, s, plan) ==
    LET username    == ValueString(plan.Username)
        password    == IF ~IsNull(plan.Password) /\ ~IsUnknown(plan.Password)
                       THEN ValueString(plan.Password) ELSE <<>>
        permissions == ValueInt64(plan.Permissions)
        name        == IF ~IsNull(plan.Name) /\ ~IsUnknown(plan.Name)
                       THEN ValueString(plan.Name) ELSE <<>>
        email       == IF ~IsNull(plan.Email) /\ ~IsUnknown(plan.Email)
                       THEN ValueString(plan.Email) ELSE <<>>
        accountType == IF ~IsNull(plan.AccountType) /\ ~IsUnknown(plan.AccountType)
                       THEN ValueString(plan.AccountType) ELSE AcctLocal
        enabled     == IF ~IsNull(plan.Enabled) /\ ~IsUnknown(plan.Enabled)
                       THEN ValueBool(plan.Enabled) ELSE TRUE
        Created(r) ==
            IF IsErr(r.err)
            THEN [srv |-> r.srv, log |-> r.log, tf |-> Absent,
                  diags |-> <<Diag("error", "Error creating Tenable VM user", "%s", <<>>, r.err)>>]
            ELSE [srv |-> r.srv, log |-> r.log,
                  tf  |-> [ID          |-> TfVal(Itoa(r.user.ID)),
                           Username    |-> TfVal(r.user.Username),
                           Password    |-> TfNull,
                           Permissions |-> TfVal(r.user.Permissions),
                           Name        |-> StringOrNull(r.user.Name),
                           Email       |-> StringOrNull(r.user.Email),
                           AccountType |-> TfVal(accountType),
                           Enabled     |-> TfVal(r.user.Enabled)],
                  diags |-> <<>>]
    IN  Created(CreateUser(c, env, s, <<>>, username, password, permissions, name, email,
                           accountType, enabled))

\* a read that takes a 404 alone for absence and reports any other failure
ResourceReadMutOnly404(c, env, s, state) ==
    LET Fetched(idStr, g) ==
            IF IsErr(g.err) /\ g.err.msg.status = 404
            THEN [srv |-> g.srv, log |-> g.log, tf |-> Absent,
                  diags |-> <<Diag("warning", "Tenable VM user not found",
                                   "Removing tenablevm_user resource with ID %s from state due to read error: %s",
                                   idStr, g.err)>>]
            ELSE IF IsErr(g.err)
            THEN [srv |-> g.srv, log |-> g.log, tf |-> state,
                  diags |-> <<Diag("error", "Error reading Tenable VM user", "%s", <<>>, g.err)>>]
            ELSE [srv |-> g.srv, log |-> g.log,
                  tf  |-> [state EXCEPT !.Username    = TfVal(g.user.Username),
                                        !.Permissions = TfVal(g.user.Permissions),
                                        !.Name        = StringOrNull(g.user.Name),
                                        !.Email       = StringOrNull(g.user.Email),
                                        !.Password    = TfNull,
                                        !.Enabled     = TfVal(g.user.Enabled)],
                  diags |-> <<>>]
        Parsed(idStr, id) ==
            IF ~id.ok
            THEN [srv |-> s, log |-> <<>>, tf |-> state,
                  diags |-> <<Diag("error", "Invalid User ID",
                                   "Expected numeric ID but got: %s", idStr, NoErr)>>]
            ELSE Fetched(idStr, GetUser(c, env, s, <<>>, id.v))
        WithID(idStr) == Parsed(idStr, Atoi(idStr))
    IN  WithID(ValueString(state.ID))

\* a Read that takes the id, too, from the answer
ResourceReadMutTakesId(c, env, s, state) ==
    LET Fetched(idStr, g) ==
            IF IsErr(g.err)
            THEN [srv |-> g.srv, log |-> g.log, tf |-> Absent,
                  diags |-> <<Diag("warning", "Tenable VM user not found",
                                   "Removing tenablevm_user resource with ID %s from state due to read error: %s",
                                   idStr, g.err)>>]
            ELSE [srv |-> g.srv, log |-> g.log,
                  tf  |-> [state EXCEPT !.ID          = TfVal(Itoa(g.user.ID)),
                                        !.Username    = TfVal(g.user.Username),
                                        !.Permissions = TfVal(g.user.Permissions),
                                        !.Name        = StringOrNull(g.user.Name),
                                        !.Email       = StringOrNull(g.user.Email),
                                        !.Password    = TfNull,
                                        !.Enabled     = TfVal(g.user.Enabled)],
                  diags |-> <<>>]
        Parsed(idStr, id) ==
            IF ~id.ok
            THEN [srv |-> s, log |-> <<>>, tf |-> state,
                  diags |-> <<Diag("error", "Invalid User ID",
                                   "Expected numeric ID but got: %s", idStr, NoErr)>>]
            ELSE Fetched(idStr, GetUser(c, env, s, <<>>, id.v))
        WithID(idStr) == Parsed(idStr, Atoi(idStr))
    IN  WithID(ValueString(state.ID))

\* userResource.Read
ResourceRead(c, env, s, state) ==
    LET Fetched(idStr, g) ==
            IF IsErr(g.err)
            THEN [srv |-> g.srv, log |-> g.log, tf |-> Absent,
                  diags |-> <<Diag("warning", "Tenable VM user not found",
                                   "Removing tenablevm_user resource with ID %s from state due to read error: %s",
                                   idStr, g.err)>>]
            ELSE [srv |-> g.srv, log |-> g.log,
                  tf  |-> [state EXCEPT !.Username    = TfVal(g.user.Username),
                                        !.Permissions = TfVal(g.user.Permissions),
                                        !.Name        = StringOrNull(g.user.Name),
                                        !.Email       = StringOrNull(g.user.Email),
                                        !.Password    = TfNull,
                                        !.Enabled     = TfVal(g.user.Enabled)],
                  diags |-> <<>>]
        Parsed(idStr, id) ==
            IF ~id.ok
            THEN [srv |-> s, log |-> <<>>, tf |-> state,
                  diags |-> <<Diag("error", "Invalid User ID",
                                   "Expected numeric ID but got: %s", idStr, NoErr)>>]
            ELSE Fetched(idStr, GetUser(c, env, s, <<>>, id.v))
        WithID(idStr) == Parsed(idStr, Atoi(idStr))
    IN  WithID(ValueString(state.ID))

\* an Update that takes the name for changed whenever it is known
ResourceUpdateMutAlwaysName(c, env, s, plan, state) ==
    LET planName   == IF ~IsNull(plan.Name) THEN ValueString(plan.Name) ELSE <<>>
        stateName  == IF ~IsNull(state.Name) THEN ValueString(state.Name) ELSE <<>>
        planEmail  == IF ~IsNull(plan.Email) THEN ValueString(plan.Email) ELSE <<>>
        stateEmail == IF ~IsNull(state.Email) THEN ValueString(state.Email) ELSE <<>>
        Refreshed(g) ==
            IF IsErr(g.err)
            THEN [srv |-> g.srv, log |-> g.log, tf |-> state,
                  diags |-> <<Diag("error", "Error reading Tenable VM user after update",
                                   "%s", <<>>, g.err)>>]
            ELSE [srv |-> g.srv, log |-> g.log,
                  tf  |-> [state EXCEPT !.Username    = TfVal(g.user.Username),
                                        !.Permissions = TfVal(g.user.Permissions),
                                        !.Name        = StringOrNull(g.user.Name),
                                        !.Email       = StringOrNull(g.user.Email),
                                        !.Password    = TfNull,
                                        !.Enabled     = TfVal(g.user.Enabled)],
                  diags |-> <<>>]
        Updated(id, u) ==
            IF IsErr(u.err)
            THEN [srv |-> u.srv, log |-> u.log, tf |-> state,
                  diags |-> <<Diag("error", "Error updating Tenable VM user", "%s", <<>>, u.err)>>]
            ELSE Refreshed(GetUser(c, env, u.srv, u.log, id.v))
        Diffed(id, perms, name, email, enabled) ==
            IF ~perms.set /\ ~name.set /\ ~email.set /\ ~enabled.set
            THEN [srv |-> s, log |-> <<>>, tf |-> state, diags |-> <<>>]
            ELSE Updated(id, UpdateUser(c, env, s, <<>>, id.v, perms, name, email, enabled))
        Parsed(idStr, id) ==
            IF ~id.ok
            THEN [srv |-> s, log |-> <<>>, tf |-> state,
                  diags |-> <<Diag("error", "Invalid User ID",
                                   "Expected numeric ID but got: %s", idStr, NoErr)>>]
            ELSE Diffed(id,
                        IF ValueInt64(plan.Permissions) # ValueInt64(state.Permissions)
                        THEN Some(ValueInt64(plan.Permissions)) ELSE None,
                        IF ~IsUnknown(plan.Name)
                        THEN Some(planName) ELSE None,
                        IF ~IsUnknown(plan.Email) /\ planEmail # stateEmail
                        THEN Some(planEmail) ELSE None,
                        IF ~IsUnknown(plan.Enabled)
                           /\ ValueBool(plan.Enabled) # ValueBool(state.Enabled)
                        THEN Some(ValueBool(plan.Enabled)) ELSE None)
        WithID(idStr) == Parsed(idStr, Atoi(idStr))
    IN  WithID(ValueString(state.ID))

\* an Update that takes a null planned email for a change
ResourceUpdateMutNullClears(c, env, s, plan, state) ==
    LET planName   == IF ~IsNull(plan.Name) THEN ValueString(plan.Name) ELSE <<>>
        stateName  == IF ~IsNull(state.Name) THEN ValueString(state.Name) ELSE <<>>
        planEmail  == IF ~IsNull(plan.Email) THEN ValueString(plan.Email) ELSE <<>>
        stateEmail == IF ~IsNull(state.Email) THEN ValueString(state.Email) ELSE <<>>
        Refreshed(g) ==
            IF IsErr(g.err)
            THEN [srv |-> g.srv, log |-> g.log, tf |-> state,
                  diags |-> <<Diag("error", "Error reading Tenable VM user after update",
                                   "%s", <<>>, g.err)>>]
            ELSE [srv |-> g.srv, log |-> g.log,
                  tf  |-> [state EXCEPT !.Username    = TfVal(g.user.Username),
                                        !.Permissions = TfVal(g.user.Permissions),
                                        !.Name        = StringOrNull(g.user.Name),
                                        !.Email       = StringOrNull(g.user.Email),
                                        !.Password    = TfNull,
                                        !.Enabled     = TfVal(g.user.Enabled)],
                  diags |-> <<>>]
        Updated(id, u) ==
            IF IsErr(u.err)
            THEN [srv |-> u.srv, log |-> u.log, tf |-> state,
                  diags |-> <<Diag("error", "Error updating Tenable VM user", "%s", <<>>, u.err)>>]
            ELSE Refreshed(GetUser(c, env, u.srv, u.log, id.v))
        Diffed(id, perms, name, email, enabled) ==
            IF ~perms.set /\ ~name.set /\ ~email.set /\ ~enabled.set
            THEN [srv |-> s, log |-> <<>>, tf |-> state, diags |-> <<>>]
            ELSE Updated(id, UpdateUser(c, env, s, <<>>, id.v, perms, name, email, enabled))
        Parsed(idStr, id) ==
            IF ~id.ok
            THEN [srv |-> s, log |-> <<>>, tf |-> state,
                  diags |-> <<Diag("error", "Invalid User ID",
                                   "Expected numeric ID but got: %s", idStr, NoErr)>>]
            ELSE Diffed(id,
                        IF ValueInt64(plan.Permissions) # ValueInt64(state.Permissions)
                        THEN Some(ValueInt64(plan.Permissions)) ELSE None,
                        IF ~IsUnknown(plan.Name) /\ planName # stateName
                        THEN Some(planName) ELSE None,
                        IF ~IsUnknown(plan.Email) /\ (planEmail # stateEmail \/ IsNull(plan.Email))
                        THEN Some(planEmail) ELSE None,
                        IF ~IsUnknown(plan.Enabled)
                           /\ ValueBool(plan.Enabled) # ValueBool(state.Enabled)
                        THEN Some(ValueBool(plan.Enabled)) ELSE None)
        WithID(idStr) == Parsed(idStr, Atoi(idStr))
    IN  WithID(ValueString(state.ID))

\* an Update that writes the plan to state when the read after it fails
ResourceUpdateMutSavesOnError(c, env, s, plan, state) ==
    LET planName   == IF ~IsNull(plan.Name) THEN ValueString(plan.Name) ELSE <<>>
        stateName  == IF ~IsNull(state.Name) THEN ValueString(state.Name) ELSE <<>>
        planEmail  == IF ~IsNull(plan.Email) THEN ValueString(plan.Email) ELSE <<>>
        stateEmail == IF ~IsNull(state.Email) THEN ValueString(state.Email) ELSE <<>>
        Refreshed(g) ==
            IF IsErr(g.err)
            THEN [srv |-> g.srv, log |-> g.log,
                  tf  |-> [state EXCEPT !.Permissions = plan.Permissions,
                                        !.Name = plan.Name, !.Email = plan.Email,
                                        !.Enabled = plan.Enabled],
                  diags |-> <<Diag("error", "Error reading Tenable VM user after update",
                                   "%s", <<>>, g.err)>>]
            ELSE [srv |-> g.srv, log |-> g.log,
                  tf  |-> [state EXCEPT !.Username    = TfVal(g.user.Username),
                                        !.Permissions = TfVal(g.user.Permissions),
                                        !.Name        = StringOrNull(g.user.Name),
                                        !.Email       = StringOrNull(g.user.Email),
                                        !.Password    = TfNull,
                                        !.Enabled     = TfVal(g.user.Enabled)],
                  diags |-> <<>>]
        Updated(id, u) ==
            IF IsErr(u.err)
            THEN [srv |-> u.srv, log |-> u.log, tf |-> state,
                  diags |-> <<Diag("error", "Error updating Tenable VM user", "%s", <<>>, u.err)>>]
            ELSE Refreshed(GetUser(c, env, u.srv, u.log, id.v))
        Diffed(id, perms, name, email, enabled) ==
            IF ~perms.set /\ ~name.set /\ ~email.set /\ ~enabled.set
            THEN [srv |-> s, log |-> <<>>, tf |-> state, diags |-> <<>>]
            ELSE Updated(id, UpdateUser(c, env, s, <<>>, id.v, perms, name, email, enabled))
        Parsed(idStr, id) ==
            IF ~id.ok
            THEN [srv |-> s, log |-> <<>>, tf |-> state,
                  diags |-> <<Diag("error", "Invalid User ID",
                                   "Expected numeric ID but got: %s", idStr, NoErr)>>]
            ELSE Diffed(id,
                        IF ValueInt64(plan.Permissions) # ValueInt64(state.Permissions)
                        THEN Some(ValueInt64(plan.Permissions)) ELSE None,
                        IF ~IsUnknown(plan.Name) /\ planName # stateName
                        THEN Some(planName) ELSE None,
                        IF ~IsUnknown(plan.Email) /\ planEmail # stateEmail
                        THEN Some(planEmail) ELSE None,
                        IF ~IsUnknown(plan.Enabled)
                           /\ ValueBool(plan.Enabled) # ValueBool(state.Enabled)
                        THEN Some(ValueBool(plan.Enabled)) ELSE None)
        WithID(idStr) == Parsed(idStr, Atoi(idStr))
    IN  WithID(ValueString(state.ID))

\* userResource.Update
ResourceUpdate(c, env, s, plan, state) ==
    LET planName   == IF ~IsNull(plan.Name) THEN ValueString(plan.Name) ELSE <<>>
        stateName  == IF ~IsNull(state.Name) THEN ValueString(state.Name) ELSE <<>>
        planEmail  == IF ~IsNull(plan.Email) THEN ValueString(plan.Email) ELSE <<>>
        stateEmail == IF ~IsNull(state.Email) THEN ValueString(state.Email) ELSE <<>>
        Refreshed(g) ==
            IF IsErr(g.err)
            THEN [srv |-> g.srv, log |-> g.log, tf |-> state,
                  diags |-> <<Diag("error", "Error reading Tenable VM user after update",
                                   "%s", <<>>, g.err)>>]
            ELSE [srv |-> g.srv, log |-> g.log,
                  tf  |-> [state EXCEPT !.Username    = TfVal(g.user.Username),
                                        !.Permissions = TfVal(g.user.Permissions),
                                        !.Name        = StringOrNull(g.user.Name),
                                        !.Email       = StringOrNull(g.user.Email),
                                        !.Password    = TfNull,
                                        !.Enabled     = TfVal(g.user.Enabled)],
                  diags |-> <<>>]
        Updated(id, u) ==
            IF IsErr(u.err)
            THEN [srv |-> u.srv, log |-> u.log, tf |-> state,
                  diags |-> <<Diag("error", "Error updating Tenable VM user", "%s", <<>>, u.err)>>]
            ELSE Refreshed(GetUser(c, env, u.srv, u.log, id.v))
        Diffed(id, perms, name, email, enabled) ==
            IF ~perms.set /\ ~name.set /\ ~email.set /\ ~enabled.set
            THEN [srv |-> s, log |-> <<>>, tf |-> state, diags |-> <<>>]
            ELSE Updated(id, UpdateUser(c, env, s, <<>>, id.v, perms, name, email, enabled))
        Parsed(idStr, id) ==
            IF ~id.ok
            THEN [srv |-> s, log |-> <<>>, tf |-> state,
                  diags |-> <<Diag("error", "Invalid User ID",
                                   "Expected numeric ID but got: %s", idStr, NoErr)>>]
            ELSE Diffed(id,
                        IF ValueInt64(plan.Permissions) # ValueInt64(state.Permissions)
                        THEN Some(ValueInt64(plan.Permissions)) ELSE None,
                        IF ~IsUnknown(plan.Name) /\ planName # stateName
                        THEN Some(planName) ELSE None,
                        IF ~IsUnknown(plan.Email) /\ planEmail # stateEmail
                        THEN Some(planEmail) ELSE None,
                        IF ~IsUnknown(plan.Enabled)
                           /\ ValueBool(plan.Enabled) # ValueBool(state.Enabled)
                        THEN Some(ValueBool(plan.Enabled)) ELSE None)
        WithID(idStr) == Parsed(idStr, Atoi(idStr))
    IN  WithID(ValueString(state.ID))

\* a Delete that takes a user the server no longer has for deleted
ResourceDeleteMutIdempotent(c, env, s, state) ==
    LET Deleted(r) ==
            IF IsErr(r.err) /\ r.err.msg.status # 404
            THEN [srv |-> r.srv, log |-> r.log, tf |-> state,
                  diags |-> <<Diag("error", "Error deleting Tenable VM user", "%s", <<>>, r.err)>>]
            ELSE [srv |-> r.srv, log |-> r.log, tf |-> Absent, diags |-> <<>>]
        Parsed(idStr, id) ==
            IF ~id.ok
            THEN [srv |-> s, log |-> <<>>, tf |-> state,
                  diags |-> <<Diag("error", "Invalid User ID",
                                   "Expected numeric ID but got: %s", idStr, NoErr)>>]
            ELSE Deleted(DeleteUser(c, env, s, <<>>, id.v))
        WithID(idStr) == Parsed(idStr, Atoi(idStr))
    IN  WithID(ValueString(state.ID))

\* userResource.Delete
ResourceDelete(c, env, s, state) ==
    LET Deleted(r) ==
            IF IsErr(r.err)
            THEN [srv |-> r.srv, log |-> r.log, tf |-> state,
                  diags |-> <<Diag("error", "Error deleting Tenable VM user", "%s", <<>>, r.err)>>]
            ELSE [srv |-> r.srv, log |-> r.log, tf |-> Absent, diags |-> <<>>]
        Parsed(idStr, id) ==
            IF ~id.ok
            THEN [srv |-> s, log |-> <<>>, tf |-> state,
                  diags |-> <<Diag("error", "Invalid User ID",
                                   "Expected numeric ID but got: %s", idStr, NoErr)>>]
            ELSE Deleted(DeleteUser(c, env, s, <<>>, id.v))
        WithID(idStr) == Parsed(idStr, Atoi(idStr))
    IN  WithID(ValueString(state.ID))

\* userResource.ImportState: the id alone is set, the rest is null
ResourceImportState(idStr) ==
    [ID |-> TfVal(idStr), Username |-> TfNull, Password |-> TfNull,
     Permissions |-> TfNull, Name |-> TfNull, Email |-> TfNull,
     AccountType |-> TfNull, Enabled |-> TfNull]

----------------------------------------------------------------------------
(* The lookups (data_source_role.go, the group data source,                 *)
(* data_source_user.go)                                                     *)

\* the summaries of the three lookups differ in the record's kind alone
Summary(text, kind) == [text |-> text, kind |-> kind]

\* a selector counts as supplied when it is known and not the empty string
Supplied(x) == ~IsNull(x) /\ ~IsUnknown(x) /\ ValueString(x) # <<>>

\* for _, r := range list { if r.ID == id { found = r; break } }
RECURSIVE FirstByID(_, _)
FirstByID(list, id) ==
    IF list = <<>> THEN Nil
    ELSE IF Head(list).ID = id THEN Head(list)
    ELSE FirstByID(Tail(list), id)

\* for _, r := range list { if strings.EqualFold(r.Name, name) { ... break } }
RECURSIVE FirstByName(_, _)
FirstByName(list, name) ==
    IF list = <<>> THEN Nil
    ELSE IF EqualFold(Head(list).Name, name) THEN Head(list)
    ELSE FirstByName(Tail(list), name)

\* for _, u := range users { if u.Username == username { ... break } }
RECURSIVE FirstByUsername(_, _)
FirstByUsername(list, username) ==
    IF list = <<>> THEN Nil
    ELSE IF Head(list).Username = username THEN Head(list)
    ELSE FirstByUsername(Tail(list), username)

\* the state a role or group lookup writes
RoleState(r) ==
    [ID |-> TfVal(Itoa(r.ID)), Name |-> TfVal(r.Name), UUID |-> TfVal(r.UUID),
     Description |-> StringOrNull(r.Description)]

\* the role and group lookups differ in the list they fetch and in their
\* messages: kind is "Role" or "Group"
LookupMutNameFirst(kind, c, env, s, config) ==
    LET Fetch == IF kind = "Role" THEN ListRoles(c, env, s, <<>>)
                 ELSE ListGroups(c, env, s, <<>>)
        Items(l) == IF kind = "Role" THEN l.roles ELSE l.groups
        Matched(l, found, notFound) ==
            IF IsErr(l.err)
            THEN [log |-> l.log, state |-> Absent,
                  diags |-> <<Diag("error", Summary("Error listing", kind), "%s", <<>>, l.err)>>]
            ELSE IF found = Nil
            THEN [log |-> l.log, state |-> Absent, diags |-> <<notFound>>]
            ELSE [log |-> l.log, state |-> RoleState(found), diags |-> <<>>]
        ByID(idStr, id, l) ==
            IF ~id.ok
            THEN [log |-> <<>>, state |-> Absent,
                  diags |-> <<Diag("error", Summary("Invalid ID", kind),
                                   "The id attribute must be a numeric string.", <<>>, NoErr)>>]
            ELSE Matched(l, FirstByID(Items(l), id.v),
                         Diag("error", Summary("Not Found", kind),
                              "No Tenable VM %s was found with id %s.", idStr, NoErr))
        ByName(name, l) ==
            Matched(l, FirstByName(Items(l), name),
                    Diag("error", Summary("Not Found", kind),
                         "No Tenable VM %s was found with name %s.", name, NoErr))
        Missing ==
            [log |-> <<>>, state |-> Absent,
             diags |-> <<Diag("error", Summary("Missing Search Parameter", kind),
                              "Either the id or name attribute must be set.", <<>>, NoErr)>>]
    IN  IF Supplied(config.Name)
        THEN ByName(ValueString(config.Name), Fetch)
        ELSE IF Supplied(config.ID)
        THEN ByID(ValueString(config.ID), Atoi(ValueString(config.ID)), Fetch)
        ELSE Missing

\* roleDataSource.Read and groupDataSource.Read
Lookup(kind, c, env, s, config) ==
    LET Fetch == IF kind = "Role" THEN ListRoles(c, env, s, <<>>)
                 ELSE ListGroups(c, env, s, <<>>)
        Items(l) == IF kind = "Role" THEN l.roles ELSE l.groups
        Matched(l, found, notFound) ==
            IF IsErr(l.err)
            THEN [log |-> l.log, state |-> Absent,
                  diags |-> <<Diag("error", Summary("Error listing", kind), "%s", <<>>, l.err)>>]
            ELSE IF found = Nil
            THEN [log |-> l.log, state |-> Absent, diags |-> <<notFound>>]
            ELSE [log |-> l.log, state |-> RoleState(found), diags |-> <<>>]
        ByID(idStr, id, l) ==
            IF ~id.ok
            THEN [log |-> <<>>, state |-> Absent,
                  diags |-> <<Diag("error", Summary("Invalid ID", kind),
                                   "The id attribute must be a numeric string.", <<>>, NoErr)>>]
            ELSE Matched(l, FirstByID(Items(l), id.v),
                         Diag("error", Summary("Not Found", kind),
                              "No Tenable VM %s was found with id %s.", idStr, NoErr))
        ByName(name, l) ==
            Matched(l, FirstByName(Items(l), name),
                    Diag("error", Summary("Not Found", kind),
                         "No Tenable VM %s was found with name %s.", name, NoErr))
        Missing ==
            [log |-> <<>>, state |-> Absent,
             diags |-> <<Diag("error", Summary("Missing Search Parameter", kind),
                              "Either the id or name attribute must be set.", <<>>, NoErr)>>]
    IN  IF Supplied(config.ID)
        THEN ByID(ValueString(config.ID), Atoi(ValueString(config.ID)), Fetch)
        ELSE IF Supplied(config.Name)
        THEN ByName(ValueString(config.Name), Fetch)
        ELSE Missing

\* the state the user lookup writes
UserState(u) ==
    [ID |-> TfVal(Itoa(u.ID)), Username |-> TfVal(u.Username),
     Name |-> StringOrNull(u.Name), Email |-> StringOrNull(u.Email),
     Permissions |-> TfVal(u.Permissions), Enabled |-> TfVal(u.Enabled)]

\* userDataSource.Read
UserLookup(c, env, s, config) ==
    LET Got(g) ==
            IF IsErr(g.err)
            THEN [log |-> g.log, state |-> Absent,
                  diags |-> <<Diag("error", Summary("Error retrieving", "User"), "%s", <<>>, g.err)>>]
            ELSE [log |-> g.log, state |-> UserState(g.user), diags |-> <<>>]
        ByID(id) ==
            IF ~id.ok
            THEN [log |-> <<>>, state |-> Absent,
                  diags |-> <<Diag("error", Summary("Invalid ID", "User"),
                                   "The id attribute must be a numeric string.", <<>>, NoErr)>>]
            ELSE Got(GetUser(c, env, s, <<>>, id.v))
        Matched(username, l, found) ==
            IF IsErr(l.err)
            THEN [log |-> l.log, state |-> Absent,
                  diags |-> <<Diag("error", Summary("Error listing", "User"), "%s", <<>>, l.err)>>]
            ELSE IF found = Nil
            THEN [log |-> l.log, state |-> Absent,
                  diags |-> <<Diag("error", Summary("Not Found", "User"),
                                   "No Tenable VM user was found with username %s.",
                                   username, NoErr)>>]
            ELSE [log |-> l.log, state |-> UserState(found), diags |-> <<>>]
        Listed(username, l) == Matched(username, l, FirstByUsername(l.users, username))
    IN  IF Supplied(config.ID)
        THEN ByID(Atoi(ValueString(config.ID)))
        ELSE IF Supplied(config.Username)
        THEN Listed(ValueString(config.Username), ListUsers(c, env, s, <<>>))
        ELSE [log |-> <<>>, state |-> Absent,
              diags |-> <<Diag("error", Summary("Missing Search Parameter", "User"),
                               "Either the id or username attribute must be set.", <<>>, NoErr)>>]

----------------------------------------------------------------------------
(* Values the operations are tried on *)

Idle   == [op |-> "none"]

Credentials == { <<"a","c","c","e","s","s">>, <<"k"," ","1">>, <<"%","s">>, <<>> }

TheClient == [AccessKey |-> <<"a","c","c","e","s","s">>,
              SecretKey |-> <<"s","e","c","r","e","t">>]

\* what c.Http.Do may hand to do: statuses on either side of the 2xx range with
\* bodies of every kind, or a transport error
HttpResults ==
    { Response(s, b) :
        s \in { 199, 200, 204, 299, 300, 404 },
        b \in { BodyObject([k \in {"id"} |-> JInt(1)]),
                BodyArray(<<[k \in {"id"} |-> JNum(2, "float")]>>),
                [kind |-> "null"],
                BodyText(""), BodyText("not json") } }
    \cup { NetErr(newRequest(TheClient, MethodGet, PathUsers, Nil).req, "connection refused") }

----------------------------------------------------------------------------
(* The transport on its own: requests are built and responses are handled *)

InitTransport ==
    /\ client \in [AccessKey : Credentials, SecretKey : Credentials]
    /\ srv = <<>>
    /\ dir = [roles |-> <<>>, groups |-> <<>>]
    /\ tf = Absent
    /\ last = Idle

\* the caller takes the result; the next operation starts from there
Return ==
    /\ last # Idle
    /\ last' = Idle
    /\ UNCHANGED <<client, srv, dir, tf>>

BuildRequest ==
    /\ last = Idle
    /\ \E method \in { MethodGet, MethodPost, MethodPut, MethodDelete, <<>>, <<"B"," ","D">> },
          path \in { PathUsers, <<"/">> \o PathUsers, <<"/","/">> \o PathRoles,
                     Sprintf(FmtUser, <<7>>), Sprintf(FmtUserEnabled, <<12>>) },
          body \in { Nil,
                     [t |-> "payload", v |-> [k \in {"enabled"} |-> GoBool(FALSE)]],
                     [t |-> "payload", v |-> [k \in {"permissions", "name"} |->
                          IF k = "name" THEN GoString(<<"A","l">>) ELSE GoInt(16)]] } :
        /\ last' = [op |-> "newRequest", method |-> method, path |-> path,
                    body |-> body, ret |-> newRequest(client, method, path, body)]
        /\ UNCHANGED <<client, srv, dir, tf>>

Execute ==
    /\ last = Idle
    /\ \E r \in HttpResults, target \in { "nil", "map", "slice" } :
        /\ last' = [op |-> "do", resp |-> r, target |-> target, ret |-> do(r, target)]
        /\ UNCHANGED <<client, srv, dir, tf>>

NextTransport == BuildRequest \/ Execute \/ Return

SpecTransport == InitTransport /\ [][NextTransport]_vars

----------------------------------------------------------------------------
(* Inputs of the client and resource operations *)

UserAl == <<"a","l">>
NameAl == <<"A","l">>
MailAx == <<"a","@","x">>

FailKinds == { "s500", "neterr", "badjson" }

\* how POST /users is answered: with or without an id, with or without the
\* enabled field, and the enabled flag the server gives the new user
Shapes == { sh \in [withId : BOOLEAN, withEnabled : BOOLEAN, srvEnabled : BOOLEAN,
                    lit : {"int"}, extra : {FALSE}, idShift : {0},
                    mangle : {[key |-> "", how |-> "none"]}] :
               ~sh.withEnabled => sh.srvEnabled }
PlainShape == [withId |-> TRUE, withEnabled |-> TRUE, srvEnabled |-> TRUE,
               lit |-> "int", extra |-> FALSE, idShift |-> 0,
               mangle |-> [key |-> "", how |-> "none"]]

\* how the server may write the objects of its answers
AnswerShapes ==
    { PlainShape, [PlainShape EXCEPT !.lit = "float"], [PlainShape EXCEPT !.extra = TRUE] }

\* the fields an answer may lack or carry with a value of another type
Mangles ==
    [key : {"id", "uuid", "username", "name", "email", "permissions", "enabled",
            "description"},
     how : {"drop", "type"}]

\* the plans under which the k-th exchange is answered with a field of ms
\* mangled, and every exchange succeeds
MangledAt(k, ms) ==
    { [failAt |-> k, kind |-> "mangled", shape |-> [PlainShape EXCEPT !.mangle = m]] :
        m \in ms }

\* the plans of an operation that makes up to n exchanges: none fails, or
\* the k-th is the first to fail
Plans(n, kinds, shapes) ==
    { [failAt |-> 0, kind |-> "ok", shape |-> sh] : sh \in shapes }
    \cup { [failAt |-> k, kind |-> kd, shape |-> sh] :
              k \in 1..n, kd \in kinds, sh \in shapes }

Env(d, plan) == [dir |-> d, plan |-> plan]

NoUsers == [i \in 1..MaxId |-> NoUser]

RoleJson(id, name) ==
    [k \in {"id", "uuid", "name", "description"} |->
        CASE k = "id"   -> JInt(id)
          [] k = "uuid" -> JStr(<<"r">> \o Itoa(id))
          [] k = "name" -> JStr(name)
          [] OTHER      -> JStr(<<>>)]

SomeDir == [roles  |-> <<RoleJson(1, NameAl)>>,
            groups |-> <<RoleJson(1, <<"B","o">>), RoleJson(2, NameAl)>>]

\* ids the operations are called with: those the server may hold, and one
\* on either side
CallIds == 0..(MaxId + 1)

----------------------------------------------------------------------------
(* The client's public operations, called in any order *)

InitClient ==
    /\ client = TheClient
    /\ srv = NoUsers
    /\ dir = SomeDir
    /\ tf = Absent
    /\ last = Idle

Called(op, args, r, ret) ==
    /\ srv' = r.srv
    /\ last' = [op |-> op, args |-> args, log |-> r.log, err |-> r.err, ret |-> ret]
    /\ UNCHANGED <<client, dir, tf>>

CallCreateUser ==
    /\ last = Idle
    /\ \E i \in DOMAIN srv : srv[i] = NoUser
    /\ \E password \in {<<>>, <<"p","w">>}, permissions \in {16, 32},
       name \in {<<>>, NameAl}, email \in {<<>>, MailAx}, enabled \in BOOLEAN,
       plan \in Plans(2, FailKinds, Shapes \cup AnswerShapes)
                \cup MangledAt(1, {[key |-> "enabled", how |-> "type"]}) :
        LET r == CreateUser(client, Env(dir, plan), srv, <<>>, UserAl, password,
                            permissions, name, email, AcctLocal, enabled)
        IN  Called("CreateUser",
                   [password |-> password, permissions |-> permissions, name |-> name,
                    email |-> email, enabled |-> enabled],
                   r, r.user)

CallGetUser ==
    /\ last = Idle
    /\ \E id \in CallIds, plan \in Plans(1, FailKinds, AnswerShapes) \cup MangledAt(1, Mangles) :
           LET r == GetUser(client, Env(dir, plan), srv, <<>>, id)
           IN  Called("GetUser", [id |-> id], r, r.user)

CallListUsers ==
    /\ last = Idle
    /\ \E plan \in Plans(1, FailKinds, AnswerShapes) \cup MangledAt(1, Mangles) :
           LET r == ListUsers(client, Env(dir, plan), srv, <<>>)
           IN  Called("ListUsers", [id |-> 0], r, r.users)

CallListRoles ==
    /\ last = Idle
    /\ \E plan \in Plans(1, FailKinds, AnswerShapes) \cup MangledAt(1, Mangles) :
           LET r == ListRoles(client, Env(dir, plan), srv, <<>>)
           IN  Called("ListRoles", [id |-> 0], r, r.roles)

CallListGroups ==
    /\ last = Idle
    /\ \E plan \in Plans(1, FailKinds, AnswerShapes) \cup MangledAt(1, Mangles) :
           LET r == ListGroups(client, Env(dir, plan), srv, <<>>)
           IN  Called("ListGroups", [id |-> 0], r, r.groups)

CallUpdateUser ==
    /\ last = Idle
    /\ \E id \in CallIds,
          permissions \in {None, Some(32)}, name \in {None, Some(NameAl)},
          email \in {None, Some(<<>>)}, enabled \in {None, Some(FALSE)},
          plan \in Plans(3, FailKinds, {PlainShape})
                   \cup MangledAt(2, {[key |-> "name", how |-> "drop"]}) :
           LET r == UpdateUser(client, Env(dir, plan), srv, <<>>, id, permissions, name,
                               email, enabled)
           IN  Called("UpdateUser",
                      [id |-> id, permissions |-> permissions, name |-> name,
                       email |-> email, enabled |-> enabled],
                      r, r.user)

CallDeleteUser ==
    /\ last = Idle
    /\ \E id \in CallIds, plan \in Plans(1, FailKinds, {PlainShape}) :
           LET r == DeleteUser(client, Env(dir, plan), srv, <<>>, id)
           IN  Called("DeleteUser", [id |-> id], r, Nil)

CallSetUserEnabled ==
    /\ last = Idle
    /\ \E id \in CallIds, enabled \in BOOLEAN, plan \in Plans(1, FailKinds, {PlainShape}) :
           LET r == SetUserEnabled(client, Env(dir, plan), srv, <<>>, id, enabled)
           IN  Called("SetUserEnabled", [id |-> id, enabled |-> enabled], r, Nil)

NextClient ==
    \/ CallCreateUser
    \/ CallGetUser
    \/ CallListUsers
    \/ CallListRoles
    \/ CallListGroups
    \/ CallUpdateUser
    \/ CallDeleteUser
    \/ CallSetUserEnabled
    \/ Return

SpecClient == InitClient /\ [][NextClient]_vars

----------------------------------------------------------------------------
(* The user resource's life: create, read, update, delete, import, while    *)
(* the server's users may also change behind the provider's back            *)

InitResource ==
    /\ client = TheClient
    /\ srv = NoUsers
    /\ dir = SomeDir
    /\ tf = Absent
    /\ last = Idle

Handled(op, input, r, call) ==
    /\ srv' = r.srv
    /\ tf' = r.tf
    /\ last' = [op |-> op, input |-> input, log |-> r.log, diags |-> r.diags,
                call |-> call]
    /\ UNCHANGED <<client, dir>>

\* the planned values of the attributes a configuration may set
\* (name and email are set together or not at all)
Planned ==
    { p \in [Username    : {TfVal(UserAl)},
             Password    : {TfNull, TfVal(<<"p","w">>)},
             Permissions : {TfVal(16), TfVal(32)},
             Name        : {TfNull, TfVal(NameAl)},
             Email       : {TfNull, TfVal(MailAx)},
             AccountType : {TfVal(AcctLocal)},
             Enabled     : {TfVal(TRUE), TfVal(FALSE)}] :
        IsNull(p.Name) <=> IsNull(p.Email) }

Create ==
    /\ last = Idle
    /\ tf = Absent
    /\ \E i \in DOMAIN srv : srv[i] = NoUser
    /\ \E plan \in Planned, net \in Plans(2, FailKinds, Shapes) :
        LET r == ResourceCreate(client, Env(dir, net), srv, plan)
        IN  Handled("Create", plan, r, [failAt |-> net.failAt])

Read ==
    /\ last = Idle
    /\ tf # Absent
    /\ \E net \in Plans(1, FailKinds, {PlainShape, [PlainShape EXCEPT !.idShift = 1]}) :
        LET r == ResourceRead(client, Env(dir, net), srv, tf)
        IN  Handled("Read", tf, r, [failAt |-> net.failAt])

Update ==
    /\ last = Idle
    /\ tf # Absent
    /\ \E plan \in Planned \cup {tf}, net \in Plans(4, {"s500"}, {PlainShape, [PlainShape EXCEPT !.idShift = 1]}) :
        LET r == ResourceUpdate(client, Env(dir, net), srv, plan, tf)
        IN  Handled("Update", plan, r, [failAt |-> net.failAt])

Delete ==
    /\ last = Idle
    /\ tf # Absent
    /\ \E net \in Plans(1, FailKinds, {PlainShape}) :
        LET r == ResourceDelete(client, Env(dir, net), srv, tf)
        IN  Handled("Delete", tf, r, [failAt |-> net.failAt])

ImportState ==
    /\ last = Idle
    /\ tf = Absent
    /\ \E idStr \in {Itoa(1), <<"x","1">>} :
        /\ tf' = ResourceImportState(idStr)
        /\ last' = [op |-> "ImportState", input |-> TfVal(idStr), log |-> <<>>,
                    diags |-> <<>>, call |-> [failAt |-> 0]]
        /\ UNCHANGED <<client, srv, dir>>

\* somebody else deletes a user on the server
OutOfBandDelete ==
    /\ last = Idle
    /\ \E id \in DOMAIN srv :
        /\ srv[id] # NoUser
        /\ srv' = [srv EXCEPT ![id] = NoUser]
        /\ last' = [op |-> "OutOfBandDelete", input |-> TfVal(Itoa(id)), log |-> <<>>,
                    diags |-> <<>>, call |-> [failAt |-> 0]]
        /\ UNCHANGED <<client, dir, tf>>

NextResource ==
    \/ Create
    \/ Read
    \/ Update
    \/ Delete
    \/ ImportState
    \/ OutOfBandDelete
    \/ Return

SpecResource == InitResource /\ [][NextResource]_vars

----------------------------------------------------------------------------
(* The lookups, each against a server that holds some roles, groups and    *)
(* users                                                                   *)

NameAd  == <<"a","d">>
NameCap == <<"A","d">>
NameA   == <<"a">>

\* the users of the server: one for each record, under the record's name
UsersOf(a) ==
    [i \in 1..MaxRecords |->
        IF i <= Len(a)
        THEN [username |-> a[i]["name"].v, name |-> NameAl, email |-> <<>>,
              permissions |-> 16, enabled |-> TRUE]
        ELSE NoUser]

\* the arrays GET /roles may answer: ids may repeat and names may differ in
\* case alone or be prefixes of one another
InitLookup ==
    /\ client = TheClient
    /\ \E a \in UNION { [1..n -> { RoleJson(id, nm) : id \in 1..MaxRecords,
                                                    nm \in { NameAd, NameCap, NameA } }] :
                          n \in 0..MaxRecords } :
        /\ dir = [roles |-> a, groups |-> [i \in 1..Len(a) |-> a[Len(a) + 1 - i]]]
        /\ srv = UsersOf(a)
    /\ tf = Absent
    /\ last = Idle

\* the selectors a configuration may carry
SelectorIds ==
    { TfNull, TfUnknown, TfVal(<<>>), TfVal(<<"x">>) }
    \cup { TfVal(Itoa(i)) : i \in 1..(MaxRecords + 1) }
SelectorNames == { TfNull, TfVal(<<>>), TfVal(NameCap), TfVal(NameA) }

LookedUp(op, config, r) ==
    /\ last' = [op |-> op, config |-> config, log |-> r.log, diags |-> r.diags,
                state |-> r.state]
    /\ UNCHANGED <<client, srv, dir, tf>>

ReadRole ==
    /\ last = Idle
    /\ \E id \in SelectorIds, name \in SelectorNames,
          plan \in Plans(1, FailKinds, {PlainShape}) :
           LookedUp("Role", [ID |-> id, Name |-> name],
                    Lookup("Role", client, Env(dir, plan), srv, [ID |-> id, Name |-> name]))

ReadGroup ==
    /\ last = Idle
    /\ \E id \in SelectorIds, name \in SelectorNames,
          plan \in Plans(1, FailKinds, {PlainShape}) :
           LookedUp("Group", [ID |-> id, Name |-> name],
                    Lookup("Group", client, Env(dir, plan), srv, [ID |-> id, Name |-> name]))

ReadUser ==
    /\ last = Idle
    /\ \E id \in SelectorIds, name \in SelectorNames,
          plan \in Plans(1, FailKinds, {PlainShape}) :
           LookedUp("User", [ID |-> id, Name |-> name],
                    UserLookup(client, Env(dir, plan), srv, [ID |-> id, Username |-> name]))

NextLookup == ReadRole \/ ReadGroup \/ ReadUser \/ Return

SpecLookup == InitLookup /\ [][NextLookup]_vars

----------------------------------------------------------------------------
(* The lookups together with a user resource that enters the state by      *)
(* import: every handler that reads an id from its input                   *)

NextImported ==
    \/ ReadRole
    \/ ReadGroup
    \/ ReadUser
    \/ ImportState
    \/ Read
    \/ Update
    \/ Delete
    \/ Return

SpecImported == InitResource /\ [][NextImported]_vars

----------------------------------------------------------------------------
(* The client's reading operations against servers that hold several roles, *)
(* groups and users                                                         *)

NextListing ==
    \/ CallListUsers
    \/ CallListRoles
    \/ CallListGroups
    \/ CallGetUser
    \/ Return

SpecListing == InitLookup /\ [][NextListing]_vars

----------------------------------------------------------------------------
(* The provider (provider.go) *)

\* tflog.Debug and tflog.Info: a message with the fields of the logging
\* context and its own, the values of the masked keys replaced by "***"
LogEntry(level, msg, fields, masked, own) ==
    [level |-> level, msg |-> msg,
     fields |-> [k \in DOMAIN fields \cup DOMAIN own |->
                    IF k \in masked THEN <<"*","*","*">>
                    ELSE IF k \in DOMAIN own THEN own[k] ELSE fields[k]]]

\* a Configure that falls back to the environment for an empty configured value
ProviderConfigureMutEmptyFallsBack(config, environ) ==
    LET Pick(v, e) == IF ~IsNull(v) /\ ValueString(v) # <<>> THEN ValueString(v) ELSE e
        accessKey == Pick(config.AccessKey, environ.TENABLE_ACCESS_KEY)
        secretKey == Pick(config.SecretKey, environ.TENABLE_SECRET_KEY)
        made == [AccessKey |-> accessKey, SecretKey |-> secretKey]
    IN  IF accessKey = <<>> \/ secretKey = <<>> \/ IsUnknown(config.AccessKey)
           \/ IsUnknown(config.SecretKey)
        THEN [diags |-> <<[sev |-> "error", path |-> "access_key",
                           summary |-> "Missing Tenable API access key"]>>,
              logs |-> <<>>, ResourceData |-> Nil, DataSourceData |-> Nil]
        ELSE [diags |-> <<>>, logs |-> <<>>, ResourceData |-> made, DataSourceData |-> made]

\* tenablevmProvider.Configure
ProviderConfigure(config, environ) ==
    LET AttrError(path, summary) == [sev |-> "error", path |-> path, summary |-> summary]
        Failed(diags) ==
            [diags |-> diags, logs |-> <<>>, ResourceData |-> Nil, DataSourceData |-> Nil]
        unknown ==
            (IF IsUnknown(config.AccessKey)
             THEN <<AttrError("access_key", "Unknown Tenable API Access Key")>> ELSE <<>>)
            \o (IF IsUnknown(config.SecretKey)
                THEN <<AttrError("secret_key", "Unknown Tenable API Secret Key")>> ELSE <<>>)
        accessKey == IF ~IsNull(config.AccessKey) THEN ValueString(config.AccessKey)
                     ELSE environ.TENABLE_ACCESS_KEY
        secretKey == IF ~IsNull(config.SecretKey) THEN ValueString(config.SecretKey)
                     ELSE environ.TENABLE_SECRET_KEY
        missing ==
            (IF accessKey = <<>>
             THEN <<AttrError("access_key", "Missing Tenable API access key")>> ELSE <<>>)
            \o (IF secretKey = <<>>
                THEN <<AttrError("secret_key", "Missing Tenable API secret key")>> ELSE <<>>)
        fields == [k \in {"tenable_access_key", "tenable_secret_key"} |->
                      IF k = "tenable_access_key" THEN accessKey ELSE secretKey]
        masked == {"tenable_secret_key"}
        apiClient == [AccessKey |-> accessKey, SecretKey |-> secretKey]
    IN  IF unknown # <<>> THEN Failed(unknown)
        ELSE IF missing # <<>> THEN Failed(missing)
        ELSE [diags |-> <<>>,
              logs  |-> << LogEntry("debug", "Creating Tenable VM client", fields, masked,
                                    <<>>),
                           LogEntry("info", "Configured Tenable VM client", fields, masked,
                                    [k \in {"success"} |-> <<"t","r","u","e">>]) >>,
              ResourceData |-> apiClient, DataSourceData |-> apiClient]

\* the provider before Configure: no client yet
InitProvider ==
    /\ client = Nil
    /\ srv = NoUsers
    /\ dir = SomeDir
    /\ tf = Absent
    /\ last = Idle

\* the values an attribute of the provider block may have, and the values
\* os.Getenv may return (empty when the variable is not set)
Configure ==
    /\ last = Idle
    /\ client = Nil
    /\ \E config \in [{"AccessKey", "SecretKey"} ->
                        { TfNull, TfUnknown, TfVal(<<>>), TfVal(<<"c","k">>),
                          TfVal(<<"a","c","c","e","s","s">>) }],
          environ \in [{"TENABLE_ACCESS_KEY", "TENABLE_SECRET_KEY"} ->
                         { <<>>, <<"e","k">>, <<"s","e","c","r","e","t">> }] :
        LET r == ProviderConfigure(config, environ)
        IN  /\ client' = r.ResourceData
            /\ last' = [op |-> "Configure", config |-> config, environ |-> environ,
                        diags |-> r.diags, logs |-> r.logs,
                        DataSourceData |-> r.DataSourceData]
            /\ UNCHANGED <<srv, dir, tf>>

\* a data source called with the client the provider handed over
ConfiguredListRoles ==
    /\ last = Idle
    /\ client # Nil
    /\ CallListRoles

NextProvider ==
    \/ Configure
    \/ ConfiguredListRoles
    \/ Return

SpecProvider == InitProvider /\ [][NextProvider]_vars

----------------------------------------------------------------------------
(* Two UpdateUser invocations on one shared client, their HTTP exchanges    *)
(* interleaved in any order.  Each invocation has its own position, its own *)
(* copy of the record it fetched, and its own exchanges.                    *)

\* the server holds user 1
InitConcurrent ==
    /\ client = TheClient
    /\ \E name \in {<<>>, NameAl}, email \in {<<>>, MailAx}, enabled \in BOOLEAN :
        srv = [NoUsers EXCEPT ![1] = [username |-> UserAl, name |-> name, email |-> email,
                                      permissions |-> 16, enabled |-> enabled]]
    /\ dir = SomeDir
    /\ tf = Absent
    /\ last = Idle

\* the two invocations start: one overrides the permissions, the other one
\* of name, email and enabled
Begin ==
    /\ last = Idle
    /\ \E other \in {"name", "email", "enabled"},
          plans \in [1..2 -> Plans(3, {"s500"}, {PlainShape})] :
        LET args == << [permissions |-> Some(32), name |-> None, email |-> None,
                        enabled |-> None],
                       [permissions |-> None,
                        name    |-> IF other = "name" THEN Some(<<"B","o">>) ELSE None,
                        email   |-> IF other = "email" THEN Some(<<"b","@","x">>) ELSE None,
                        enabled |-> IF other = "enabled" THEN Some(~srv[1].enabled)
                                    ELSE None] >>
        IN  last' = [op |-> "UpdateUser x2",
                     inv |-> [p \in 1..2 |->
                                [pc |-> "get", args |-> args[p], plan |-> plans[p],
                                 current |-> Nil, log |-> <<>>, err |-> NoErr,
                                 user |-> Nil]]]
    /\ UNCHANGED <<client, srv, dir, tf>>

\* invocation p has made the exchange r and goes on to pc, or ends on r's error
Stepped(p, r, pc, current, user) ==
    /\ srv' = r.srv
    /\ last' = [last EXCEPT !.inv[p] =
                   [@ EXCEPT !.pc      = IF IsErr(r.err) THEN "done" ELSE pc,
                             !.log     = r.log,
                             !.err     = r.err,
                             !.current = IF IsErr(r.err) THEN Nil ELSE current,
                             !.user    = IF IsErr(r.err) THEN Nil ELSE user]]
    /\ UNCHANGED <<client, dir, tf>>

\* current, err := c.GetUser(id)
FetchCurrent ==
    /\ last # Idle
    /\ last.op = "UpdateUser x2"
    /\ \E p \in 1..2 :
        /\ last.inv[p].pc = "get"
        /\ LET r == GetUser(client, Env(dir, last.inv[p].plan), srv, last.inv[p].log, 1)
           IN  Stepped(p, r, "put", r.user, Nil)

\* the PUT of the payload merged from current and the overrides
PutMerged ==
    /\ last # Idle
    /\ last.op = "UpdateUser x2"
    /\ \E p \in 1..2 :
        /\ last.inv[p].pc = "put"
        /\ LET i == last.inv[p]
               r == Roundtrip(client, Env(dir, i.plan), srv, i.log, MethodPut,
                              Sprintf(FmtUser, <<1>>),
                              Payload(UpdatePayload(i.current, i.args.permissions,
                                                    i.args.name, i.args.email,
                                                    i.args.enabled)),
                              "map")
           IN  Stepped(p, r, "refetch", i.current, Nil)

\* return c.GetUser(id)
Refetch ==
    /\ last # Idle
    /\ last.op = "UpdateUser x2"
    /\ \E p \in 1..2 :
        /\ last.inv[p].pc = "refetch"
        /\ LET r == GetUser(client, Env(dir, last.inv[p].plan), srv, last.inv[p].log, 1)
           IN  Stepped(p, r, "done", last.inv[p].current, r.user)

\* both invocations have returned
Join ==
    /\ last # Idle
    /\ last.op = "UpdateUser x2"
    /\ \A p \in 1..2 : last.inv[p].pc = "done"
    /\ last' = Idle
    /\ UNCHANGED <<client, srv, dir, tf>>

NextConcurrent ==
    \/ Begin
    \/ FetchCurrent
    \/ PutMerged
    \/ Refetch
    \/ Join

SpecConcurrent == InitConcurrent /\ [][NextConcurrent]_vars

----------------------------------------------------------------------------
(* Properties of the transport *)

ApiKeysValue(a, b) ==
    <<"a","c","c","e","s","s","K","e","y","=">> \o a
    \o <<";"," ","s","e","c","r","e","t","K","e","y","=">> \o b \o <<";">>

\* C1: every request newRequest builds, for any method, path, body and
\* credential pair (A, B), carries the header X-ApiKeys with the value
\* "accessKey=A; secretKey=B;" and nothing more, and the header
\* Content-Type: application/json.
C1_AuthHeader ==
    (last.op = "newRequest" /\ ~IsErr(last.ret.err)) =>
        /\ HeaderGet(last.ret.req.header, HdrApiKeys)
              = ApiKeysValue(client.AccessKey, client.SecretKey)
        /\ HeaderGet(last.ret.req.header, HdrContentType) = AppJson

\* a PUT with a body is built for credentials that hold a space and a verb
C1_Witness ==
    /\ last.op = "newRequest"
    /\ ~IsErr(last.ret.err)
    /\ last.ret.req.method = MethodPut
    /\ last.body # Nil
    /\ client.AccessKey = <<"k"," ","1">>
    /\ client.SecretKey = <<"%","s">>

Is2xx(status) == status >= 200 /\ status < 300

\* C2: do returns an error for every response whose status is below 200 or
\* at least 300 and leaves the target untouched; for a 2xx status and no
\* target it succeeds whatever the body is; for a 2xx status and a target it
\* returns what decoding the body into the target returns, a body that is
\* no JSON document being an error.
C2_DoContract ==
    (last.op = "do" /\ ~last.resp.neterr) =>
        /\ ~Is2xx(last.resp.status) =>
              /\ last.ret.err.kind = "api"
              /\ last.ret.err.msg.status = last.resp.status
              /\ last.ret.err.msg.body = last.resp.body
              /\ last.ret.target = Untouched
        /\ (Is2xx(last.resp.status) /\ last.target = "nil") =>
              /\ ~IsErr(last.ret.err)
              /\ last.ret.target = Untouched
        /\ (Is2xx(last.resp.status) /\ last.target # "nil") =>
              /\ last.ret = JsonDecode(last.resp.body, last.target)
              /\ last.resp.body.kind = "malformed" => last.ret.err.kind = "decode"
              /\ (last.resp.body.kind = "object" /\ last.target = "map") =>
                    /\ ~IsErr(last.ret.err)
                    /\ DOMAIN last.ret.target.kv = DOMAIN last.resp.body.obj

\* the status 300, the first above the accepted range, is answered with a
\* JSON object and a map is the target
C2_Witness ==
    /\ last.op = "do"
    /\ ~last.resp.neterr
    /\ last.resp.status = 300
    /\ last.resp.body.kind = "object"
    /\ last.target = "map"
    /\ last.ret.err.kind = "api"

----------------------------------------------------------------------------
(* Properties of the client's operations *)

\* an exchange of the log succeeded when do, given its response and the
\* target of its call, returns no error
Succeeded(x, target) == ~IsErr(do(x.resp, target).err)

IsPutEnabled(x) ==
    /\ x.req.method = MethodPut
    /\ \E i \in DOMAIN EnabledUrl : x.req.url = EnabledUrl[i]

\* the enabled value the answer to POST /users yields: the field, or true
\* when the answer has none
PostedEnabled(x) ==
    IF "enabled" \notin DOMAIN x.resp.body.obj THEN TRUE
    ELSE IF x.resp.body.obj["enabled"].t = "bool" THEN x.resp.body.obj["enabled"].v
    ELSE FALSE

PostedId(x) ==
    IF "id" \in DOMAIN x.resp.body.obj THEN x.resp.body.obj["id"].h \div 2 ELSE 0

\* C3: in CreateUser, whenever the enabled value of the POST /users answer
\* differs from the requested one, exactly one PUT /users/{id}/enabled with
\* the body {enabled: requested} follows the POST and the returned record
\* has enabled as requested; when the two agree no request follows.
C3_Reconciled ==
    (last.op = "CreateUser" /\ Len(last.log) >= 1 /\ Succeeded(last.log[1], "map")) =>
        IF PostedEnabled(last.log[1]) # last.args.enabled
        THEN /\ Len(last.log) = 2
             /\ IsPutEnabled(last.log[2])
             /\ last.log[2].req.body.v = [k \in {"enabled"} |-> JBool(last.args.enabled)]
             /\ ~IsErr(last.err) => last.ret.Enabled = last.args.enabled
        ELSE Len(last.log) = 1

\* C4: when the POST /users of CreateUser succeeds and the PUT
\* /users/{id}/enabled that follows fails, CreateUser returns that failure
\* and no user, no further request (no DELETE) is issued, and the user is
\* on the server with an enabled flag that differs from the requested one.
C4_EnableFailure ==
    (/\ last.op = "CreateUser"
     /\ Len(last.log) >= 2
     /\ Succeeded(last.log[1], "map")
     /\ ~Succeeded(last.log[2], "nil")) =>
        /\ Len(last.log) = 2
        /\ IsPutEnabled(last.log[2])
        /\ last.err = do(last.log[2].resp, "nil").err
        /\ last.ret = Nil
        /\ srv[PostedId(last.log[1])] # NoUser
        /\ srv[PostedId(last.log[1])].enabled # last.args.enabled

\* the server created the user enabled, disabled was asked for, and the
\* correction was refused with status 500
C4_Witness ==
    /\ last.op = "CreateUser"
    /\ Len(last.log) = 2
    /\ Succeeded(last.log[1], "map")
    /\ last.log[2].resp.status = 500
    /\ last.args.enabled = FALSE
    /\ IsErr(last.err)

\* C6: the body of the PUT /users/{id} UpdateUser sends holds the four keys
\* permissions, enabled, email and name, each with the override when one is
\* supplied and else with the value the preceding GET returned.
C6_FullPayload ==
    (last.op = "UpdateUser" /\ Len(last.log) >= 2) =>
        LET got  == last.log[1].resp.body.obj
            put  == last.log[2].req
            sent == put.body.v
            a    == last.args
        IN  /\ put.method = MethodPut
            /\ put.url = UrlOf(Sprintf(FmtUser, <<a.id>>))
            /\ DOMAIN sent = {"permissions", "enabled", "email", "name"}
            /\ sent["permissions"] =
                  IF a.permissions.set THEN JInt(a.permissions.v) ELSE got["permissions"]
            /\ sent["enabled"] =
                  IF a.enabled.set THEN JBool(a.enabled.v) ELSE got["enabled"]
            /\ sent["email"] = IF a.email.set THEN JStr(a.email.v) ELSE got["email"]
            /\ sent["name"] = IF a.name.set THEN JStr(a.name.v) ELSE got["name"]

\* permissions alone are overridden and the name and email the server
\* holds are sent again
C6_Witness ==
    /\ last.op = "UpdateUser"
    /\ Len(last.log) >= 2
    /\ last.args.permissions = Some(32)
    /\ ~last.args.name.set /\ ~last.args.email.set /\ ~last.args.enabled.set
    /\ last.log[1].resp.body.obj["permissions"] = JInt(16)
    /\ last.log[2].req.body.v["permissions"] = JInt(32)
    /\ last.log[2].req.body.v["name"] = JStr(NameAl)
    /\ last.log[2].req.body.v["email"] = JStr(MailAx)

\* the target the client decodes the answer to a request into
TargetOf(req) ==
    CASE req.method = MethodDelete -> "nil"
      [] req.method = MethodPut /\ (\E i \in DOMAIN EnabledUrl : req.url = EnabledUrl[i]) -> "nil"
      [] req.method = MethodGet /\ req.url \in {UsersUrl, UrlOf(PathRoles), UrlOf(PathGroups)} -> "slice"
      [] OTHER -> "map"

\* the most requests an operation issues
MostRequests(op) ==
    CASE op = "UpdateUser" -> 3
      [] op = "CreateUser" -> 2
      [] OTHER -> 1

\* C7, as stated: every public operation of the client issues at most two
\* sequential HTTP requests per invocation.
C7_AtMostTwo == last.op # "none" => Len(last.log) <= 2

\* C7, amended: UpdateUser issues at most three sequential requests (GET,
\* PUT, GET), CreateUser at most two and every other operation one; each
\* request is issued after the one before it succeeded, and the operation
\* returns success only when all of them succeeded.
C7_AtMostThree ==
    last.op # "none" =>
        /\ Len(last.log) <= MostRequests(last.op)
        /\ \A i \in 1..(Len(last.log) - 1) :
              Succeeded(last.log[i], TargetOf(last.log[i].req))
        /\ ~IsErr(last.err) =>
              \A i \in DOMAIN last.log : Succeeded(last.log[i], TargetOf(last.log[i].req))
        /\ (last.op = "UpdateUser" /\ Len(last.log) = 3) =>
              /\ last.log[1].req.method = MethodGet
              /\ last.log[2].req.method = MethodPut
              /\ last.log[3].req.method = MethodGet

\* an update that went through: the user was read, written and read again
C7_Witness ==
    /\ last.op = "UpdateUser"
    /\ Len(last.log) = 3
    /\ ~IsErr(last.err)
    /\ last.ret.Permissions = 32

----------------------------------------------------------------------------
(* Properties of the user resource *)

\* what Create reports when the POST /users itself fails: the server
\* refuses it or the request never arrives, and no user is created
PostFailureDiags ==
    { ResourceCreate(TheClient,
                     Env(SomeDir, [failAt |-> 1, kind |-> k, shape |-> PlainShape]),
                     NoUsers, p).diags :
        p \in Planned, k \in {"s500", "neterr"} }

\* C5: the error Create reports when the user was created and the
\* correction of its enabled flag failed tells the half-applied state: it
\* differs from every error reported when the POST /users itself failed.
C5_HalfAppliedReported ==
    (/\ last.op = "Create"
     /\ Len(last.log) = 2
     /\ Succeeded(last.log[1], "map")
     /\ ~Succeeded(last.log[2], "nil")) =>
        last.diags \notin PostFailureDiags

\* C8: in the resource's Read, any failure of GET /users/{id} (a 404,
\* another status outside 2xx, a transport error, an answer that does not
\* decode) removes the resource from state and reports a warning and no
\* error, and the request is issued once.
C8_ReadFailure ==
    (last.op = "Read" /\ Len(last.log) >= 1 /\ ~Succeeded(last.log[1], "map")) =>
        /\ tf = Absent
        /\ Len(last.diags) = 1
        /\ last.diags[1].sev = "warning"
        /\ last.diags[1].summary = "Tenable VM user not found"
        /\ last.diags[1].msg = do(last.log[1].resp, "map").err.msg
        /\ Len(last.log) = 1
        /\ last.log[1].req.method = MethodGet

\* the server answers the read of a user it holds with status 500
C8_Witness ==
    /\ last.op = "Read"
    /\ Len(last.log) = 1
    /\ last.log[1].resp.status = 500
    /\ \E id \in DOMAIN srv : srv[id] # NoUser /\ last.input.ID = TfVal(Itoa(id))
    /\ tf = Absent

----------------------------------------------------------------------------
(* Properties of the lookups *)

MinOf(S) == CHOOSE i \in S : \A j \in S : i <= j

SameIgnoringCase(s, t) ==
    /\ Len(s) = Len(t)
    /\ \A i \in DOMAIN s : ToLowerCh(s[i]) = ToLowerCh(t[i])

\* the state a lookup writes for the JSON record j of the answered array
StateOfRecord(j) ==
    [ID |-> TfVal(Itoa(j["id"].h \div 2)), Name |-> TfVal(j["name"].v),
     UUID |-> TfVal(j["uuid"].v), Description |-> StringOrNull(j["description"].v)]

Failed == last.state = Absent /\ \E i \in DOMAIN last.diags : last.diags[i].sev = "error"

\* C9: in the role, group and user lookups with both an id and a name (or
\* username) supplied, the id alone decides: the record with that id is the
\* result even when the name matches another record, and when no record
\* has that id the lookup fails even when the name would match.
C9_IdDecides ==
    (/\ last.op \in {"Role", "Group", "User"}
     /\ Supplied(last.config.ID)
     /\ Supplied(last.config.Name)) =>
        LET id == Atoi(ValueString(last.config.ID))
        IN  IF ~id.ok THEN Failed /\ last.log = <<>>
            ELSE /\ Len(last.log) = 1
                 /\ IF last.op = "User"
                    THEN /\ last.log[1].req.url = UrlOf(Sprintf(FmtUser, <<id.v>>))
                         /\ IF Succeeded(last.log[1], "map")
                            THEN /\ last.state.ID = TfVal(Itoa(id.v))
                                 /\ last.state.Username = TfVal(srv[id.v].username)
                            ELSE Failed
                    ELSE IF ~Succeeded(last.log[1], "slice") THEN Failed
                    ELSE LET items == last.log[1].resp.body.items
                             hits  == { i \in DOMAIN items : items[i]["id"] = JInt(id.v) }
                         IN  IF hits = {} THEN Failed
                             ELSE last.state = StateOfRecord(items[MinOf(hits)])

\* a role is looked up by an id and a name that match different records,
\* and the record of the id is the result
C9_Witness ==
    /\ last.op = "Role"
    /\ last.config.ID = TfVal(Itoa(2))
    /\ last.config.Name = TfVal(NameCap)
    /\ Len(last.log) = 1
    /\ Succeeded(last.log[1], "slice")
    /\ last.log[1].resp.body.items = <<RoleJson(1, NameAd), RoleJson(2, NameA)>>
    /\ last.state.Name = TfVal(NameA)

\* C10: the role and group lookups by name match a stored record exactly
\* when the two names are equal ignoring letter case, never on a prefix or
\* a part of the name; the first such record of the list is the result.
C10_NameMatch ==
    (/\ last.op \in {"Role", "Group"}
     /\ ~Supplied(last.config.ID)
     /\ Supplied(last.config.Name)
     /\ Len(last.log) = 1
     /\ Succeeded(last.log[1], "slice")) =>
        LET items == last.log[1].resp.body.items
            hits  == { i \in DOMAIN items :
                         SameIgnoringCase(items[i]["name"].v, ValueString(last.config.Name)) }
        IN  IF hits = {} THEN Failed
            ELSE last.state = StateOfRecord(items[MinOf(hits)])

\* the selector "Ad" finds the group stored as "ad", past a group named "a"
C10_Witness ==
    /\ last.op = "Group"
    /\ ~Supplied(last.config.ID)
    /\ last.config.Name = TfVal(NameCap)
    /\ Len(last.log) = 1
    /\ Succeeded(last.log[1], "slice")
    /\ last.log[1].resp.body.items = <<RoleJson(1, NameA), RoleJson(2, NameAd)>>
    /\ last.state.ID = TfVal(Itoa(2))
    /\ last.state.Name = TfVal(NameAd)

\* C11: the user lookup by username matches ignoring letter case: a username
\* selector that differs from a stored user's username only in the case of
\* its letters resolves to that user.
C11_UsernameFold ==
    (/\ last.op = "User"
     /\ ~Supplied(last.config.ID)
     /\ Supplied(last.config.Name)
     /\ Len(last.log) = 1
     /\ Succeeded(last.log[1], "slice")) =>
        LET items == last.log[1].resp.body.items
            hits  == { i \in DOMAIN items :
                         SameIgnoringCase(items[i]["username"].v, ValueString(last.config.Name)) }
        IN  hits # {} =>
                /\ last.state # Absent
                /\ \E i \in hits : last.state.ID = TfVal(Itoa(items[i]["id"].h \div 2))

----------------------------------------------------------------------------
(* Properties of the handlers' input validation *)

HasErrorDiag(diags) == \E i \in DOMAIN diags : diags[i].sev = "error"

\* a numeric string: decimal digits, possibly after a sign
NumericString(s) ==
    LET body == IF s # <<>> /\ Head(s) \in {"+", "-"} THEN Tail(s) ELSE s
    IN  /\ body # <<>>
        /\ \A i \in DOMAIN body :
              body[i] \in {"0", "1", "2", "3", "4", "5", "6", "7", "8", "9"}

\* a step of a handler whose input does not pass validation: a lookup whose
\* id is supplied and not numeric, or that has neither selector, and a
\* resource Read, Update or Delete whose id in state is not numeric
InvalidInputStep ==
    /\ last = Idle
    /\ \/ /\ last'.op \in {"Role", "Group", "User"}
          /\ \/ Supplied(last'.config.ID) /\ ~NumericString(ValueString(last'.config.ID))
             \/ ~Supplied(last'.config.ID) /\ ~Supplied(last'.config.Name)
       \/ /\ last'.op \in {"Read", "Update", "Delete"}
          /\ ~NumericString(ValueString(tf.ID))

\* C12: input-validation errors are local.  A non-numeric id string (in the
\* role, group and user lookups and in the user resource's Read, Update and
\* Delete) or a lookup with neither an id nor a name or username (null,
\* unknown or empty) ends with an error diagnostic, and no request is sent.
C12_LocalValidation ==
    [][InvalidInputStep => (HasErrorDiag(last'.diags) /\ last'.log = <<>> /\ srv' = srv)]_vars

\* an Update of a resource imported under the id "x1" failed without a request
C12_Witness ==
    /\ last.op = "Update"
    /\ tf # Absent
    /\ tf.ID = TfVal(<<"x","1">>)
    /\ HasErrorDiag(last.diags)
    /\ last.log = <<>>

----------------------------------------------------------------------------
(* Properties of the lookups' failures *)

\* the lookup ended with the not-found error, which no failed request gives,
\* and wrote no state
EndedNotFound ==
    /\ last.state = Absent
    /\ Len(last.diags) = 1
    /\ last.diags[1].sev = "error"
    /\ last.diags[1].summary.text = "Not Found"

\* the lookup sent its one request, the server answered it from the records
\* it holds, and none of them matches the selector
NoRecordMatches ==
    /\ last.op \in {"Role", "Group", "User"}
    /\ Len(last.log) = 1
    /\ IF Supplied(last.config.ID)
       THEN LET id == Atoi(ValueString(last.config.ID)).v
            IN  IF last.op = "User"
                THEN /\ last.log[1].resp = NotFound
                     /\ id \notin { i \in DOMAIN srv : srv[i] # NoUser }
                ELSE /\ Succeeded(last.log[1], "slice")
                     /\ \A i \in DOMAIN last.log[1].resp.body.items :
                           last.log[1].resp.body.items[i]["id"] # JInt(id)
       ELSE /\ Succeeded(last.log[1], "slice")
            /\ \A i \in DOMAIN last.log[1].resp.body.items :
                  ~SameIgnoringCase(
                      last.log[1].resp.body.items[i][IF last.op = "User" THEN "username"
                                                      ELSE "name"].v,
                      ValueString(last.config.Name))

\* C13: when a selector is supplied, the server answers the request and no
\* record matches (an empty list included), the lookup ends with a not-found
\* error that differs from the error of a failed request, and writes no
\* state; for role and group lookups by id or name and for user lookups by
\* id or username.
C13_NotFoundDistinct == NoRecordMatches => EndedNotFound

----------------------------------------------------------------------------
(* Properties of the decoding of records *)

\* the value n of a JSON number that stands for the integer n, in either form
IntegerOf(j) == j.h \div 2

\* the value of field k of the JSON object j as an integer, a string or a
\* boolean: the zero value when j has no field k or one of another type
IntAt(j, k)    == IF k \in DOMAIN j /\ j[k].t = "num" THEN j[k].h \div 2 ELSE 0
StringAt(j, k) == IF k \in DOMAIN j /\ j[k].t = "str" THEN j[k].v ELSE <<>>
BoolAt(j, k)   == IF k \in DOMAIN j /\ j[k].t = "bool" THEN j[k].v ELSE FALSE

\* the objects the answer to the operation's first request holds
AnsweredObjects ==
    IF last.log[1].resp.body.kind = "object" THEN <<last.log[1].resp.body.obj>>
    ELSE last.log[1].resp.body.items

\* the records the operation returned
ReturnedRecords ==
    IF last.op \in {"CreateUser", "GetUser"} THEN <<last.ret>> ELSE last.ret

Decoded ==
    /\ last.op \in {"CreateUser", "GetUser", "ListUsers", "ListRoles", "ListGroups"}
    /\ ~IsErr(last.err)

\* C14: decoding does not depend on the form of a number.  The id of a user,
\* role or group and the permissions of a user, written as the integer n or
\* as the floating-point form of n, both yield the integer n in the record
\* CreateUser, GetUser, ListUsers, ListRoles and ListGroups return.
C14_NumericForm ==
    Decoded =>
        /\ Len(ReturnedRecords) = Len(AnsweredObjects)
        /\ \A i \in DOMAIN AnsweredObjects :
              /\ ("id" \in DOMAIN AnsweredObjects[i]
                    /\ AnsweredObjects[i]["id"].t = "num") =>
                    ReturnedRecords[i].ID = IntegerOf(AnsweredObjects[i]["id"])
              /\ (last.op \in {"CreateUser", "GetUser", "ListUsers"}
                    /\ "permissions" \in DOMAIN AnsweredObjects[i]
                    /\ AnsweredObjects[i]["permissions"].t = "num") =>
                    ReturnedRecords[i].Permissions
                       = IntegerOf(AnsweredObjects[i]["permissions"])

\* the users are listed, the server writes the id 1 as 1.0 and the
\* permissions 32 as 32.0, and the record has the integers 1 and 32
C14_Witness ==
    /\ last.op = "ListUsers"
    /\ ~IsErr(last.err)
    /\ Len(last.ret) >= 1
    /\ IntAt(last.log[1].resp.body.items[1], "id") = 1
    /\ IntAt(last.log[1].resp.body.items[1], "permissions") = 32
    /\ last.log[1].resp.body.items[1]["id"].lit = "float"
    /\ last.log[1].resp.body.items[1]["permissions"].lit = "float"
    /\ last.ret[1].ID = 1
    /\ last.ret[1].Permissions = 32

\* the fields a typed record has beside its id and its raw object, as the
\* JSON object j gives them
FieldsOf(op, j) ==
    IF op \in {"ListUsers", "GetUser"}
    THEN [UUID |-> StringAt(j, "uuid"), Username |-> StringAt(j, "username"),
          Name |-> StringAt(j, "name"), Email |-> StringAt(j, "email"),
          Permissions |-> IntAt(j, "permissions"), Enabled |-> BoolAt(j, "enabled")]
    ELSE [UUID |-> StringAt(j, "uuid"), Name |-> StringAt(j, "name"),
          Description |-> StringAt(j, "description")]

\* C15: ListUsers, ListRoles and ListGroups return one typed record for each
\* object of the server's array, in the server's order, nothing sorted,
\* dropped or doubled, and the fields of each record equal the fields of
\* the object it stands for.
C15_ListFaithful ==
    (last.op \in {"ListUsers", "ListRoles", "ListGroups"} /\ ~IsErr(last.err)) =>
        /\ Len(last.ret) = Len(AnsweredObjects)
        /\ \A i \in DOMAIN AnsweredObjects :
              /\ last.ret[i].ID = IntAt(AnsweredObjects[i], "id")
              /\ \A f \in DOMAIN FieldsOf(last.op, AnsweredObjects[i]) :
                    last.ret[i][f] = FieldsOf(last.op, AnsweredObjects[i])[f]

\* the server lists the role 2 before the role 1, and so do the records
C15_Witness ==
    /\ last.op = "ListRoles"
    /\ ~IsErr(last.err)
    /\ Len(last.ret) = 2
    /\ IntAt(last.log[1].resp.body.items[1], "id") = 2
    /\ IntAt(last.log[1].resp.body.items[2], "id") = 1
    /\ last.ret[1].ID = 2
    /\ last.ret[1].Name = NameAd
    /\ last.ret[2].ID = 1
    /\ last.ret[2].Name = NameA

RecordWithoutRaw(op, j) ==
    IF op = "GetUser"
    THEN [ID |-> IntAt(j, "id"), UUID |-> StringAt(j, "uuid"),
          Username |-> StringAt(j, "username"), Name |-> StringAt(j, "name"),
          Email |-> StringAt(j, "email"), Permissions |-> IntAt(j, "permissions"),
          Enabled |-> BoolAt(j, "enabled"), Raw |-> [isnil |-> TRUE, kv |-> <<>>]]
    ELSE [ID |-> IntAt(j, "id"), UUID |-> StringAt(j, "uuid"), Name |-> StringAt(j, "name"),
          Description |-> StringAt(j, "description"),
          Raw |-> [isnil |-> TRUE, kv |-> <<>>]]

\* C17: for a server object that holds the fields of the struct and no
\* other, the record GetUser returns, and each record ListRoles and
\* ListGroups return, equals as a whole value, its raw map included, the
\* record built from the values of those fields with no raw map set.
C17_EqualsPlainRecord ==
    (last.op \in {"GetUser", "ListRoles", "ListGroups"} /\ ~IsErr(last.err)) =>
        \A i \in DOMAIN AnsweredObjects :
            "type" \notin DOMAIN AnsweredObjects[i] =>
                ReturnedRecords[i] = RecordWithoutRaw(last.op, AnsweredObjects[i])

----------------------------------------------------------------------------
(* Properties of the user resource's state *)

\* the request is the POST /users of a Create
IsCreatePost(op, i, req) ==
    op = "Create" /\ i = 1 /\ req.method = MethodPost /\ req.url = UsersUrl

\* C18: after any sequence of Create, Read and Update the password in state
\* is null; a password supplied at creation is in the body of the POST
\* /users and in no other request, and is not written to state.
C18_PasswordTransient ==
    /\ tf # Absent => IsNull(tf.Password)
    /\ last.op \in {"Create", "Read", "Update", "Delete"} =>
          \A i \in DOMAIN last.log :
              /\ IsCreatePost(last.op, i, last.log[i].req) =>
                    last.log[i].req.body.v["password"]
                       = JStr(ValueString(last.input.Password))
              /\ (~IsCreatePost(last.op, i, last.log[i].req) /\ last.log[i].req.body # Nil) =>
                    /\ "password" \notin DOMAIN last.log[i].req.body.v
                    /\ \A k \in DOMAIN last.log[i].req.body.v :
                          last.log[i].req.body.v[k].t = "str" =>
                              last.log[i].req.body.v[k].v # <<"p","w">>

\* a user created with the password "pw" is updated under a plan that still
\* holds the password: three requests go out and the state has none
C18_Witness ==
    /\ last.op = "Update"
    /\ last.input.Password = TfVal(<<"p","w">>)
    /\ Len(last.log) = 4
    /\ last.diags = <<>>
    /\ tf # Absent
    /\ IsNull(tf.Password)

\* C19: the id in state is assigned once, by Create, from the id of the
\* answer to POST /users; every later Read and Update that succeeds leaves
\* it as it is, whatever id the answers of the server carry.
C19_IdPermanent ==
    [][/\ (last'.op = "Create" /\ tf' # Absent
             /\ "id" \in DOMAIN last'.log[1].resp.body.obj) =>
               /\ tf = Absent
               /\ tf'.ID = TfVal(Itoa(PostedId(last'.log[1])))
       /\ (last'.op \in {"Read", "Update"} /\ tf' # Absent) =>
               /\ tf # Absent
               /\ tf'.ID = tf.ID]_vars

\* a Read of the user 1 is answered with an object whose id is 2, the
\* state is refreshed from it and its id is still "1"
C19_Witness ==
    /\ last.op = "Read"
    /\ last.diags = <<>>
    /\ Len(last.log) = 1
    /\ IntegerOf(last.log[1].resp.body.obj["id"]) = 2
    /\ tf # Absent
    /\ tf.ID = TfVal(Itoa(1))
    /\ tf.Username = TfVal(UserAl)

\* C20: deleting a user issues one DELETE /users/{id}.  When the server
\* answers with an error, as it does for a user that is already deleted,
\* the error is reported as it is and the resource stays in state; a
\* DELETE that succeeds, and nothing else, removes the resource from state.
C20_DeleteSurfaces ==
    (last.op = "Delete" /\ NumericString(ValueString(last.input.ID))) =>
        /\ Len(last.log) = 1
        /\ last.log[1].req.method = MethodDelete
        /\ last.log[1].req.url
              = UrlOf(Sprintf(FmtUser, <<Atoi(ValueString(last.input.ID)).v>>))
        /\ last.log[1].req.body = Nil
        /\ IF Succeeded(last.log[1], "nil")
           THEN tf = Absent /\ last.diags = <<>>
           ELSE /\ tf = last.input
                /\ Len(last.diags) = 1
                /\ last.diags[1].sev = "error"
                /\ last.diags[1].msg = do(last.log[1].resp, "nil").err.msg

\* the user was deleted behind the provider's back: the DELETE is answered
\* 404 and the resource is still in state
C20_Witness ==
    /\ last.op = "Delete"
    /\ Len(last.log) = 1
    /\ last.log[1].resp = NotFound
    /\ tf # Absent
    /\ tf.ID = TfVal(Itoa(1))
    /\ HasErrorDiag(last.diags)

----------------------------------------------------------------------------
(* Properties of the provider *)

\* C21: neither credential is logged in cleartext.  Every entry the provider
\* writes to the log has the value of the field that carries the access key
\* and of the field that carries the secret key masked.
C21_CredentialsMasked ==
    last.op = "Configure" =>
        \A i \in DOMAIN last.logs :
            \A k \in DOMAIN last.logs[i].fields \cap {"tenable_access_key",
                                                      "tenable_secret_key"} :
                last.logs[i].fields[k] = <<"*","*","*">>

\* the value of a credential: the configured value when it is not null,
\* the environment variable otherwise
Effective(v, e) == IF ~IsNull(v) THEN ValueString(v) ELSE e

ReportedFor(path) ==
    \E i \in DOMAIN last.diags :
        last.diags[i].sev = "error" /\ last.diags[i].path = path

ConfigureOutcome(a, s) ==
    IF a # <<>> /\ s # <<>>
    THEN /\ client = [AccessKey |-> a, SecretKey |-> s]
         /\ last.DataSourceData = client
         /\ last.diags = <<>>
    ELSE /\ client = Nil
         /\ last.DataSourceData = Nil
         /\ a = <<>> => ReportedFor("access_key")
         /\ s = <<>> => ReportedFor("secret_key")

\* C23 as stated: each credential is the configured value when that is not
\* null and the environment variable otherwise; a client is handed over iff
\* both are non-empty, and otherwise every missing credential is reported
\* and there is no client.
C23_ConfigureAlways ==
    last.op = "Configure" =>
        ConfigureOutcome(Effective(last.config.AccessKey, last.environ.TENABLE_ACCESS_KEY),
                         Effective(last.config.SecretKey, last.environ.TENABLE_SECRET_KEY))

\* C23: when neither configured value is unknown, each credential is the
\* configured value when that is not null and the environment variable
\* otherwise, a client is handed over iff both are non-empty, and otherwise
\* every missing credential is reported and there is no client.  When a
\* configured value is unknown, every unknown value is reported, there is no
\* client, and nothing else is reported.
C23_ConfigureKnown ==
    last.op = "Configure" =>
        IF IsUnknown(last.config.AccessKey) \/ IsUnknown(last.config.SecretKey)
        THEN /\ client = Nil
             /\ last.DataSourceData = Nil
             /\ IsUnknown(last.config.AccessKey) <=> ReportedFor("access_key")
             /\ IsUnknown(last.config.SecretKey) <=> ReportedFor("secret_key")
        ELSE ConfigureOutcome(
                 Effective(last.config.AccessKey, last.environ.TENABLE_ACCESS_KEY),
                 Effective(last.config.SecretKey, last.environ.TENABLE_SECRET_KEY))

\* the configured access key is the empty string and wins over the
\* environment, which has both keys: no client
C23_Witness ==
    /\ last.op = "Configure"
    /\ last.config.AccessKey = TfVal(<<>>)
    /\ IsNull(last.config.SecretKey)
    /\ last.environ.TENABLE_ACCESS_KEY = <<"e","k">>
    /\ last.environ.TENABLE_SECRET_KEY = <<"s","e","c","r","e","t">>
    /\ client = Nil
    /\ ReportedFor("access_key")
    /\ ~ReportedFor("secret_key")

----------------------------------------------------------------------------
(* Properties of concurrent calls *)

\* C22: the operations are safe to call concurrently on a shared client.
\* Whatever the interleaving of two UpdateUser invocations on one user that
\* override different fields, once both have succeeded the server record
\* has both overrides, and no step changes the client.
C22_NoLostUpdate ==
    [][/\ client' = client
       /\ (/\ last' # Idle
           /\ \A p \in 1..2 : last'.inv[p].pc = "done" /\ ~IsErr(last'.inv[p].err))
              => \A p \in 1..2 :
                    /\ last'.inv[p].args.permissions.set
                          => srv'[1].permissions = last'.inv[p].args.permissions.v
                    /\ last'.inv[p].args.name.set
                          => srv'[1].name = last'.inv[p].args.name.v
                    /\ last'.inv[p].args.email.set
                          => srv'[1].email = last'.inv[p].args.email.v
                    /\ last'.inv[p].args.enabled.set
                          => srv'[1].enabled = last'.inv[p].args.enabled.v]_vars

----------------------------------------------------------------------------
(* More properties of the client's operations *)

\* C24: UpdateUser performs GET /users/{id}, PUT /users/{id} and GET
\* /users/{id}, in that order.  It stops at the first step that fails and
\* returns the error of that step and no record; when the three succeed it
\* returns the record decoded from the answer to the last GET, not from the
\* answer to the PUT.
C24_UpdateSequence ==
    last.op = "UpdateUser" =>
        LET url == UrlOf(Sprintf(FmtUser, <<last.args.id>>))
            n   == Len(last.log)
        IN  /\ n \in 1..3
            /\ \A i \in 1..n :
                  /\ last.log[i].req.url = url
                  /\ last.log[i].req.method = IF i = 2 THEN MethodPut ELSE MethodGet
                  /\ i # 2 => last.log[i].req.body = Nil
            /\ \A i \in 1..(n - 1) : Succeeded(last.log[i], "map")
            /\ IF Succeeded(last.log[n], "map")
               THEN /\ n = 3
                    /\ ~IsErr(last.err)
                    /\ last.ret = DecodeUser(do(last.log[3].resp, "map").target)
               ELSE /\ last.err = do(last.log[n].resp, "map").err
                    /\ last.ret = Nil

\* the answer to the PUT lacks the name, the answer to the GET after it has
\* it, and so has the record returned
C24_Witness ==
    /\ last.op = "UpdateUser"
    /\ Len(last.log) = 3
    /\ ~IsErr(last.err)
    /\ "name" \notin DOMAIN last.log[2].resp.body.obj
    /\ last.log[3].resp.body.obj["name"] = JStr(NameAl)
    /\ last.ret.Name = NameAl

\* CreateUser acted as if the enabled value decoded from the answer x to
\* POST /users were d: with no id to correct the user of, the record
\* returned has d; with an id, the correction is sent iff d is not the
\* value asked for
DecodedEnabledAs(x, d) ==
    /\ PostedId(x) = 0 => (~IsErr(last.err) /\ last.ret.Enabled = d)
    /\ PostedId(x) # 0 => (Len(last.log) = 1 <=> d = last.args.enabled)

\* C25 as stated: in CreateUser the enabled value decoded from the answer
\* to POST /users is true for every answer that carries no usable enabled
\* value, the field being absent or no boolean.
C25_DefaultForUnusable ==
    (last.op = "CreateUser" /\ Len(last.log) >= 1 /\ Succeeded(last.log[1], "map")) =>
        LET obj == last.log[1].resp.body.obj
        IN  ("enabled" \notin DOMAIN obj \/ obj["enabled"].t # "bool")
                => DecodedEnabledAs(last.log[1], TRUE)

\* C25: in CreateUser the enabled value decoded from the answer to POST
\* /users is true when the answer has no enabled field; when the field is
\* there and is no boolean the decoded value is false.
C25_DefaultWhenAbsent ==
    (last.op = "CreateUser" /\ Len(last.log) >= 1 /\ Succeeded(last.log[1], "map")) =>
        LET obj == last.log[1].resp.body.obj
        IN  /\ "enabled" \notin DOMAIN obj => DecodedEnabledAs(last.log[1], TRUE)
            /\ ("enabled" \in DOMAIN obj /\ obj["enabled"].t # "bool")
                  => DecodedEnabledAs(last.log[1], FALSE)

\* the answer has no enabled field and a disabled user was asked for: the
\* correction is sent
C25_Witness ==
    /\ last.op = "CreateUser"
    /\ Len(last.log) = 2
    /\ "enabled" \notin DOMAIN last.log[1].resp.body.obj
    /\ PostedId(last.log[1]) = 1
    /\ last.args.enabled = FALSE
    /\ IsPutEnabled(last.log[2])
    /\ ~IsErr(last.err)
    /\ last.ret.Enabled = FALSE

\* C26: decoding does not fail for a field that is absent or has an
\* unexpected type.  Whenever the answer to GetUser, ListUsers, ListRoles or
\* ListGroups is an object, or an array of objects, the operation succeeds
\* and returns one record for each object; a field the object lacks or
\* holds with another type is the zero value in the record (0, the empty
\* string, false), and every other field has the value of the object.
C26_ZeroForBadFields ==
    (/\ last.op \in {"GetUser", "ListUsers", "ListRoles", "ListGroups"}
     /\ Len(last.log) = 1
     /\ Succeeded(last.log[1], TargetOf(last.log[1].req))) =>
        /\ ~IsErr(last.err)
        /\ Len(ReturnedRecords) = Len(AnsweredObjects)
        /\ \A i \in DOMAIN AnsweredObjects :
              /\ ReturnedRecords[i].ID = IntAt(AnsweredObjects[i], "id")
              /\ DOMAIN ReturnedRecords[i]
                    = DOMAIN FieldsOf(last.op, AnsweredObjects[i]) \cup {"ID", "Raw"}
              /\ \A f \in DOMAIN FieldsOf(last.op, AnsweredObjects[i]) :
                    ReturnedRecords[i][f] = FieldsOf(last.op, AnsweredObjects[i])[f]

\* the user's enabled flag arrives as a string: the record has false for it
\* and the other fields as the server holds them
C26_Witness ==
    /\ last.op = "GetUser"
    /\ ~IsErr(last.err)
    /\ last.log[1].resp.body.kind = "object"
    /\ "enabled" \in DOMAIN last.log[1].resp.body.obj
    /\ last.log[1].resp.body.obj["enabled"].t = "str"
    /\ last.ret.Enabled = FALSE
    /\ last.ret.ID = 1
    /\ last.ret.Username = UserAl
    /\ last.ret.Permissions \in {16, 32}

----------------------------------------------------------------------------
(* Properties of the user resource's Update *)

\* the fields of which the planned value differs from the value in state, a
\* null name or email counting as the empty string
ChangedFields(plan, state) ==
    (IF ValueInt64(plan.Permissions) # ValueInt64(state.Permissions)
     THEN {"permissions"} ELSE {})
    \cup (IF ValueString(plan.Name) # ValueString(state.Name) THEN {"name"} ELSE {})
    \cup (IF ValueString(plan.Email) # ValueString(state.Email) THEN {"email"} ELSE {})
    \cup (IF ValueBool(plan.Enabled) # ValueBool(state.Enabled) THEN {"enabled"} ELSE {})

\* the planned value of a field as the PUT body carries it
PlannedJson(plan, k) ==
    CASE k = "permissions" -> JInt(ValueInt64(plan.Permissions))
      [] k = "name"        -> JStr(ValueString(plan.Name))
      [] k = "email"       -> JStr(ValueString(plan.Email))
      [] OTHER             -> JBool(ValueBool(plan.Enabled))

\* C27: Update marks permissions, name, email and enabled as changed iff
\* the planned value differs from the value in state, a null name or email
\* compared as the empty string.  With no field marked it returns without a
\* request and leaves state as it is; otherwise it calls UpdateUser with
\* overrides for the marked fields and no other, so that the PUT carries
\* the planned value of each marked field and, for every other field, the
\* value the GET before it returned.
C27_ChangedFields ==
    [][(last'.op = "Update" /\ tf # Absent /\ NumericString(ValueString(tf.ID))) =>
          IF ChangedFields(last'.input, tf) = {}
          THEN /\ last'.log = <<>>
               /\ last'.diags = <<>>
               /\ tf' = tf
               /\ srv' = srv
          ELSE /\ Len(last'.log) >= 1
               /\ last'.log[1].req.method = MethodGet
               /\ Len(last'.log) >= 2 =>
                     /\ last'.log[2].req.method = MethodPut
                     /\ \A k \in {"permissions", "name", "email", "enabled"} :
                           last'.log[2].req.body.v[k] =
                              IF k \in ChangedFields(last'.input, tf)
                              THEN PlannedJson(last'.input, k)
                              ELSE last'.log[1].resp.body.obj[k]]_vars

\* the state had no name, the plan has one and has the permissions of the
\* state: the PUT carries the planned name and the permissions the server
\* holds, and the update goes through
C27_Witness ==
    /\ last.op = "Update"
    /\ last.diags = <<>>
    /\ Len(last.log) = 4
    /\ last.input.Name = TfVal(NameAl)
    /\ last.log[1].resp.body.obj["name"] = JStr(<<>>)
    /\ last.log[2].req.body.v["name"] = JStr(NameAl)
    /\ last.log[2].req.body.v["permissions"] = last.log[1].resp.body.obj["permissions"]
    /\ last.log[2].req.body.v["permissions"] = JInt(ValueInt64(last.input.Permissions))
    /\ tf.Name = TfVal(NameAl)

\* C28: the write-once fields are not modified in place.  No PUT
\* /users/{id} the user resource sends through UpdateUser has a username, a
\* password or an account type ("type") in its body; Create stores the
\* planned account type, and a Read or an Update that keeps the resource
\* leaves the account type of the state as it was.
C28_WriteOnceKept ==
    [][/\ last'.op \in {"Create", "Read", "Update", "Delete"} =>
             \A i \in DOMAIN last'.log :
                 (/\ last'.log[i].req.method = MethodPut
                  /\ \E u \in DOMAIN UserUrl : last'.log[i].req.url = UserUrl[u]) =>
                     DOMAIN last'.log[i].req.body.v
                         \cap {"username", "password", "type", "account_type"} = {}
       /\ (last'.op = "Create" /\ tf' # Absent) =>
             tf'.AccountType = last'.input.AccountType
       /\ (last'.op \in {"Read", "Update"} /\ tf' # Absent) =>
             /\ tf # Absent
             /\ tf'.AccountType = tf.AccountType]_vars

\* an imported resource has no account type in state; the Update that
\* follows plans "local", changes the name on the server with a PUT, and
\* the account type of the state is still null
C28_Witness ==
    /\ last.op = "Update"
    /\ last.diags = <<>>
    /\ Len(last.log) = 4
    /\ last.log[2].req.method = MethodPut
    /\ DOMAIN last.log[2].req.body.v = {"permissions", "enabled", "email", "name"}
    /\ last.input.AccountType = TfVal(AcctLocal)
    /\ tf # Absent
    /\ IsNull(tf.AccountType)

\* C29: Read followed by Update is stable.  Whatever record of the server
\* Read has stored in state, an empty name or email stored as null, an
\* Update whose plan is that state issues no request, reports nothing and
\* leaves the state and the server as they are.
C29_ReadThenUpdateStable ==
    [][(/\ last'.op = "Update"
        /\ tf # Absent
        /\ NumericString(ValueString(tf.ID))
        /\ last'.input = tf) =>
            /\ last'.log = <<>>
            /\ last'.diags = <<>>
            /\ tf' = tf
            /\ srv' = srv]_vars

\* the resource was imported and read: the state has the username of the
\* server's record, null for its empty name and email, and no account
\* type; the Update planned with that state does nothing
C29_Witness ==
    /\ last.op = "Update"
    /\ tf # Absent
    /\ last.input = tf
    /\ last.log = <<>>
    /\ tf.ID = TfVal(Itoa(1))
    /\ tf.Username = TfVal(UserAl)
    /\ IsNull(tf.AccountType)
    /\ IsNull(tf.Name)
    /\ IsNull(tf.Email)
    /\ srv[1] # NoUser
    /\ srv[1].name = <<>>

\* C30: a failed Update leaves the state as it was.  When one of the three
\* exchanges of UpdateUser fails, or the GET /users/{id} after it, Update
\* reports the error of that exchange, under the summary of the step that
\* failed, and writes no state, whether or not the PUT has changed the
\* record on the server.
C30_FailedUpdateKeepsState ==
    [][(/\ last'.op = "Update"
        /\ last'.log # <<>>
        /\ ~Succeeded(last'.log[Len(last'.log)], "map")) =>
            /\ tf' = tf
            /\ Len(last'.diags) = 1
            /\ last'.diags[1].sev = "error"
            /\ last'.diags[1].summary =
                  IF Len(last'.log) <= 3 THEN "Error updating Tenable VM user"
                  ELSE "Error reading Tenable VM user after update"
            /\ last'.diags[1].msg = do(last'.log[Len(last'.log)].resp, "map").err.msg]_vars

\* the PUT raised the permissions on the server to 32, the GET after
\* UpdateUser was refused, and the state still has 16
C30_Witness ==
    /\ last.op = "Update"
    /\ Len(last.log) = 4
    /\ last.log[4].resp.status = 500
    /\ HasErrorDiag(last.diags)
    /\ srv[1] # NoUser
    /\ srv[1].permissions = 32
    /\ tf # Absent
    /\ tf.Permissions = TfVal(16)

====
